---- MODULE Spec2Model ----
(***************************************************************************)
(* Shapefile ingestion pipeline of the land-plot system.                   *)
(*                                                                         *)
(* Three importers write the same store:                                   *)
(*   enhanced_seed  EnhancedShapefileProcessor.process_shapefile           *)
(*   seed_data      EnhancedShapefileImporter.import_shapefile             *)
(*   seed_import    seed                                                   *)
(* A run is a sequence of stage steps (validate, inspect, bridge,          *)
(* fallback, upsert, ledger); every step is the whole stage, with the      *)
(* transaction it commits or rolls back.  The REST order handlers are      *)
(* modelled as whole requests on a request-scoped session.                 *)
(*                                                                         *)
(* Text is modelled by strings, SQL NULL / Python None by the marker NULL, *)
(* JSON values by tagged records, areas by integers in ten-thousandths of  *)
(* a hectare (numeric(12,4)), timestamps by the number of the run.         *)
(***************************************************************************)
EXTENDS Integers, Sequences, FiniteSets, TLC

VARIABLES
    land_plots,         \* committed rows of table land_plots
    shapefile_imports,  \* committed rows of table shapefile_imports
    plot_orders,        \* committed rows of table plot_orders
    staging,            \* staging tables of the store, by table name
    now,                \* the store's clock: number of runs started
    proc,               \* the import run: position and locals
    prev_run            \* signature of the last finished run

vars == <<land_plots, shapefile_imports, plot_orders, staging, now, proc,
          prev_run>>

\* Number of import runs in one behaviour.
MaxRuns == 2

NULL == "<NULL>"

----------------------------------------------------------------------------
(* Text helpers                                                            *)

Digit == <<"0", "1", "2", "3", "4", "5", "6", "7", "8", "9">>

RECURSIVE Digits(_)
\* ::text of a non-negative integer, as a sequence of digit characters
Digits(n) == IF n < 10 THEN <<Digit[n + 1]>>
             ELSE Digits(n \div 10) \o <<Digit[(n % 10) + 1]>>

RECURSIVE Join(_)
Join(cs) == IF cs = <<>> THEN "" ELSE Head(cs) \o Join(Tail(cs))

RECURSIVE Fill(_, _)
Fill(n, c) == IF n <= 0 THEN <<>> ELSE <<c>> \o Fill(n - 1, c)

\* PostgreSQL LPAD(s, len, fill): pads on the left, and truncates on the
\* right a text longer than len.
LPAD(cs, len, c) ==
    IF Len(cs) >= len THEN SubSeq(cs, 1, len)
    ELSE Fill(len - Len(cs), c) \o cs

\* str.lower() / the identifier laundering of the field names in use
Lower(s) ==
    CASE s = "PLOT_CODE" -> "plot_code"
      [] s = "CODE"      -> "code"
      [] s = "STATUS"    -> "status"
      [] s = "PLOT_ID"   -> "plot_id"
      [] s = "AREA"      -> "area"
      [] s = "AREA_HA"   -> "area_ha"
      [] s = "OWNER"     -> "owner"
      [] OTHER           -> s

----------------------------------------------------------------------------
(* JSON / DBF values                                                       *)

JStr(s) == [t |-> "string", v |-> s]
JNum(s) == [t |-> "number", v |-> s]
JNull   == [t |-> "null",   v |-> ""]

\* jsonb ->> key, and column::text: the text of a value, NULL for a JSON
\* null or a missing key
TextOf(j) == IF j.t = "null" THEN NULL ELSE j.v
JsonText(attrs, k) == IF k \in DOMAIN attrs THEN TextOf(attrs[k]) ELSE NULL

\* CAST(text AS NUMERIC) in ten-thousandths; "error" models
\* invalid_text_representation.
Numeric(s) ==
    CASE s = "2.5" -> [err |-> FALSE, val |-> 25000]
      [] s = "1.2" -> [err |-> FALSE, val |-> 12000]
      [] s = "0"   -> [err |-> FALSE, val |-> 0]
      [] OTHER     -> [err |-> TRUE,  val |-> 0]

\* json.dumps output spliced between single quotes into the SQL text:
\* a single quote in a value ends the literal.
HasQuote(s) == s \in {"O'Brien"}

----------------------------------------------------------------------------
(* Geometries of the source features                                       *)

GeomIds == {"g1", "g2", "g3", "gp", "gbow", "gbowfix", "gx", "gtiny", "gbad",
            "gknot", "gknotfix", "gfar", "g2utm", "gtinyutm", "g1loc",
            "g2loc"}

\* shapely geom_type of shape(feature['geometry'])
GeomType(g) ==
    CASE g \in {"g1", "g3", "gbow", "gtiny", "gknotfix", "gfar", "gtinyutm",
                "g1loc"}                                 -> "Polygon"
      [] g \in {"g2", "gbowfix", "gx", "gknot", "g2utm", "g2loc"}
                                                        -> "MultiPolygon"
      [] g = "gp"                                       -> "Point"
      [] OTHER                                          -> "Unknown"

\* shape() raises on a geometry it cannot parse, and on None
Parsable(g) == g \notin {"gbad", NULL}

\* geom.is_valid / ST_IsValid
IsValid(g) ==
    g \in {"g1", "g2", "g3", "gp", "gbowfix", "gtiny", "gknotfix", "gfar",
           "g2utm", "gtinyutm", "g1loc", "g2loc"}

\* geom.buffer(0); the parts of a repaired multi-polygon may come back as one
\* polygon
Buffer0(g) ==
    CASE g = "gbow"  -> "gbowfix"
      [] g = "gknot" -> "gknotfix"
      [] OTHER       -> g

\* ST_Area(geography(geometry)) in tenths of a square metre
GeodesicArea10(g) ==
    CASE g = "g1"      -> 250000
      [] g = "g2"      -> 120000
      [] g = "g3"      -> 31416
      [] g = "gbow"    -> 0
      [] g = "gbowfix" -> 80004
      [] g = "gx"      -> 0
      [] g = "gtiny"   -> 3
      [] g = "gknotfix" -> 52000
      [] g = "gfar"    -> 31416
      [] g = "g1loc"   -> 250000
      [] g = "g2loc"   -> 120000
      [] g = "g2utm"   -> 120000
      [] g = "gtinyutm" -> 3
      [] OTHER         -> 0

\* ST_Area(geometry) > 0, the planar area in square degrees
PlanarAreaPositive(g) ==
    g \in {"g1", "g2", "g3", "gbowfix", "gtiny", "gknotfix", "gfar", "g2utm",
           "gtinyutm", "g1loc", "g2loc"}

\* the coordinate reference systems of the datasets: WGS84, a UTM zone
\* that pyproj builds, and a site grid whose definition it rejects
WGS84 == "EPSG:4326"
CRSs == {WGS84, "EPSG:32736", "LOCAL_CS"}

\* pyproj.CRS(source_crs) and Transformer.from_crs succeed
Buildable(crs) == crs \in {WGS84, "EPSG:32736"}

\* the system the coordinates of a geometry are in
CoordsOf(g) ==
    CASE g \in {"g2utm", "gtinyutm"} -> "EPSG:32736"
      [] g \in {"g1loc", "g2loc"}    -> "LOCAL_CS"
      [] OTHER                       -> WGS84

\* transform(transformer.transform, geom): the same shape in WGS84
ToWGS84(g) ==
    CASE g = "g2utm"    -> "g2"
      [] g = "gtinyutm" -> "gtiny"
      [] g = "g1loc"    -> "g1"
      [] g = "g2loc"    -> "g2"
      [] OTHER          -> g

\* TANZANIA_BOUNDS against geom.bounds: all four corners inside
WithinTanzaniaBounds(g) == CoordsOf(g) = WGS84 /\ g # "gfar"

\* ROUND(CAST(ST_Area(geography(geometry)) / 10000 AS NUMERIC), 4), in
\* ten-thousandths of a hectare (one square metre each), half away from zero
ComputedAreaHectares(g) == (GeodesicArea10(g) + 5) \div 10

----------------------------------------------------------------------------
(* The invocations: shapefile path, dataset name, target labels            *)

Feature(g, props) == [geometry |-> g, properties |-> props]

AllPresent == [shp |-> "ok", shx |-> "ok", dbf |-> "ok", prj |-> "ok",
               cpg |-> "ok"]

Invocation(name, district, ward, village, features, components) ==
    [dataset_name |-> name, district |-> district, ward |-> ward,
     village |-> village, features |-> features, components |-> components,
     crs |-> IF components.prj = "ok" THEN WGS84 ELSE NULL]

\* the same dataset with another projection file
InCRS(inv, crs) == [inv EXCEPT !.crs = crs]

\* the fields of the attribute table, in file order
FieldOrder == <<"PLOT_CODE", "CODE", "AREA", "STATUS", "OWNER">>
Fields(inv) ==
    SelectSeq(FieldOrder, LAMBDA f : f \in DOMAIN inv.features[1].properties)

Owner(s) == [OWNER |-> JStr(s)]
Plot(code, area) == [PLOT_CODE |-> code, AREA |-> area]
Block(plot_code, code, status) ==
    [PLOT_CODE |-> plot_code, CODE |-> code, STATUS |-> JStr(status)]

Catalogue == <<
    \* 1: three valid features, no plot-code field; the third reaches across
    \* the national border
    Invocation("survey1", "Mbuyuni", "Mbuyuni Ward", "Mbuyuni Village",
        <<Feature("g1", Owner("Asha")), Feature("g2", Owner("Juma")),
          Feature("gfar", Owner("Neema"))>>, AllPresent),
    \* 2: explicit codes; a Point and a self-intersecting polygon
    Invocation("parcels", "Kigoma", "Kigoma Ward", "Kigoma Village",
        <<Feature("g1", Plot(JStr("A1"), JNum("2.5"))),
          Feature("gp", Plot(JStr("A3"), JNull)),
          Feature("gbow", Plot(JStr("A2"), JNull))>>, AllPresent),
    \* 3: two features with the same explicit code, surveyed on a site grid
    InCRS(Invocation("twins", "Kigoma", "Kigoma Ward", "Kigoma Village",
        <<Feature("g1loc", Plot(JStr("A1"), JNum("2.5"))),
          Feature("g2loc", Plot(JStr("A1"), JNum("1.2")))>>, AllPresent),
        "LOCAL_CS"),
    \* 4: an attribute value with a single quote, in the last partial batch
    Invocation("owners", "Mbuyuni", "Mbuyuni Ward", "Mbuyuni Village",
        <<Feature("g1", Owner("Asha")), Feature("g2", Owner("Juma")),
          Feature("g3", Owner("O'Brien"))>>, AllPresent),
    \* 5: a multi-polygon whose repair comes back as a bare polygon, in a
    \* full batch
    Invocation("knots", "Kigoma", "Kigoma Ward", "Kigoma Village",
        <<Feature("gknot", Owner("Asha")), Feature("g1", Owner("Juma"))>>,
        AllPresent),
    \* 6: a sliver whose geodesic area rounds to 0.0000 ha, in UTM zone 36S
    InCRS(Invocation("slivers", "Kigoma", "Kigoma Ward", "Kigoma Village",
        <<Feature("g2utm", Owner("Asha")), Feature("gtinyutm", Owner("Juma"))>>,
        AllPresent), "EPSG:32736"),
    \* 7: unparsable and unrepairable geometries
    Invocation("rough", "Mbuyuni", "Mbuyuni Ward", "Mbuyuni Village",
        <<Feature("gbad", Owner("Asha")), Feature("g1", Owner("Juma")),
          Feature("gx", Owner("Neema"))>>, AllPresent),
    \* 8: no index file, and an attribute table that is missing too
    Invocation("nodbf", "Mbuyuni", "Mbuyuni Ward", "Mbuyuni Village",
        <<Feature("g1", Owner("Asha"))>>,
        [AllPresent EXCEPT !.shx = "missing", !.dbf = "missing"]),
    \* 9: one feature with a code and an area; no projection, no code page
    Invocation("single", "Kigoma", "Kigoma Ward", "Kigoma Village",
        <<Feature("g3", Plot(JStr("A1"), JNum("2.5")))>>,
        [AllPresent EXCEPT !.prj = "missing", !.cpg = "missing"]),
    \* 10: codes in an upper-case CODE field next to an empty PLOT_CODE
    Invocation("blocks", "Kigoma", "Kigoma Ward", "Kigoma Village",
        <<Feature("g1", Block(JStr(""), JStr("B7"), "taken")),
          Feature("g2", Block(JNull, JStr("B8"), "pending"))>>, AllPresent),
    \* 11: the projection file cannot be read
    Invocation("lockedprj", "Mbuyuni", "Mbuyuni Ward", "Mbuyuni Village",
        <<Feature("g2", Owner("Juma"))>>,
        [AllPresent EXCEPT !.prj = "unreadable"]),
    \* 12: the geometry file is empty
    Invocation("emptyshp", "Mbuyuni", "Mbuyuni Ward", "Mbuyuni Village",
        <<Feature("g1", Owner("Asha"))>>,
        [AllPresent EXCEPT !.shp = "empty"])
>>

Invocations == 1 .. Len(Catalogue)
Importers == {"enhanced_seed", "seed_data", "seed_import"}

----------------------------------------------------------------------------
(* Staging tables                                                          *)

NoTable == [exists |-> FALSE, columns |-> <<>>, rows |-> <<>>]

\* a value of a column declared geometry(MultiPolygon, 4326)
Geom(g, type) == [g |-> g, type |-> type, srid |-> 4326]
NullGeom == Geom(NULL, "null")

Range(f) == {f[x] : x \in DOMAIN f}

\* one staging table name for every run of every importer
TempTableShared(importer, r) == "temp_shapefile_import"

\* the staging table name of each importer; r numbers the processor instance
TempTable(importer, r) ==
    CASE importer = "enhanced_seed" -> "temp_shapefile_import_" \o Join(Digits(r))
      [] importer = "seed_data"     -> "temp_shapefile_import"
      [] OTHER                      -> "_import_land_plots_tmp"

TableNames == {TempTable(i, r) : i \in Importers, r \in 1 .. MaxRuns}

----------------------------------------------------------------------------
(* Native fallback reader of enhanced_seed                                 *)

\* scaled from 100 to the size of the modelled datasets
batch_size == 2

\* the transformer of enhanced_seed and seed_data: None for a source without
\* CRS, for WGS84, and when the set-up raises, which is logged as a warning
Transformer(source_crs) ==
    IF source_crs = NULL \/ source_crs = WGS84 THEN NULL
    ELSE IF Buildable(source_crs) THEN source_crs
    ELSE NULL

\* if transformer: geom = transform(transformer.transform, geom)
transform(transformer, g) ==
    IF transformer = NULL \/ ~Parsable(g) THEN g ELSE ToWGS84(g)

\* the features as the loop body sees them after shape() and transform()
Reprojected(features, transformer) ==
    [k \in DOMAIN features |->
        [features[k] EXCEPT !.geometry = transform(transformer, @)]]

\* a loop body that skips a feature outside the national bounds
PrepareFeatureWithinBoundsOnly(feature, i) ==
    LET g == feature.geometry
        item(gg, ty) == [rejected |-> ~WithinTanzaniaBounds(gg),
                         outside |-> ~WithinTanzaniaBounds(gg),
                         item |-> [geom |-> IF WithinTanzaniaBounds(gg)
                                            THEN Geom(gg, ty) ELSE NullGeom,
                                   attrs |-> feature.properties, fid |-> i]]
        reject == [rejected |-> TRUE, outside |-> FALSE,
                   item |-> [geom |-> NullGeom,
                             attrs |-> feature.properties, fid |-> i]]
    IN  IF ~Parsable(g) THEN reject
        ELSE IF GeomType(g) \notin {"Polygon", "MultiPolygon"} THEN reject
        ELSE IF IsValid(g) THEN item(g, "MultiPolygon")
        ELSE IF ~IsValid(Buffer0(g)) THEN reject
        ELSE item(Buffer0(g), GeomType(Buffer0(g)))

\* the loop body up to the append: the item to stage, or a rejection;
\* outside: the bounds warning was logged, and the feature is kept
PrepareFeature(feature, i) ==
    LET g == feature.geometry
        item(gg, ty) == [rejected |-> FALSE,
                         outside |-> ~WithinTanzaniaBounds(gg),
                         item |-> [geom |-> Geom(gg, ty),
                                   attrs |-> feature.properties, fid |-> i]]
        reject == [rejected |-> TRUE, outside |-> FALSE,
                   item |-> [geom |-> NullGeom,
                             attrs |-> feature.properties, fid |-> i]]
    IN  IF ~Parsable(g) THEN reject
        ELSE IF GeomType(g) \notin {"Polygon", "MultiPolygon"} THEN reject
        ELSE IF IsValid(g) THEN item(g, "MultiPolygon")
        ELSE IF ~IsValid(Buffer0(g)) THEN reject
        ELSE item(Buffer0(g), GeomType(Buffer0(g)))

\* an INSERT into a column of any geometry type
BatchInsertRaisesOnQuoteOnly(batch) ==
    \E k \in DOMAIN batch :
        \E f \in DOMAIN batch[k].attrs : HasQuote(batch[k].attrs[f].v)

\* does the INSERT built from the batch raise
BatchInsertRaises(batch) ==
    \E k \in DOMAIN batch :
        \/ \E f \in DOMAIN batch[k].attrs : HasQuote(batch[k].attrs[f].v)
        \/ batch[k].geom.type # "MultiPolygon"

RECURSIVE StagedRowsRenumbered(_, _)
\* rows that take their position in the table for the source index
StagedRowsRenumbered(batch, first_id) ==
    IF batch = <<>> THEN <<>>
    ELSE <<[id |-> first_id, geometry |-> Head(batch).geom,
            attributes |-> Head(batch).attrs,
            original_fid |-> first_id - 1]>>
         \o StagedRowsRenumbered(Tail(batch), first_id + 1)

RECURSIVE StagedRows(_, _)
\* the rows one INSERT ... VALUES adds; id is the serial key
StagedRows(batch, first_id) ==
    IF batch = <<>> THEN <<>>
    ELSE <<[id |-> first_id, geometry |-> Head(batch).geom,
            attributes |-> Head(batch).attrs,
            original_fid |-> Head(batch).fid]>>
         \o StagedRows(Tail(batch), first_id + 1)

\* _execute_batch_insert on the session: rows is what the transaction has
\* inserted so far; a statement in an aborted transaction raises
_execute_batch_insert(rows, batch, aborted) ==
    IF batch = <<>> THEN [raised |-> FALSE, rows |-> rows]
    ELSE IF aborted \/ BatchInsertRaises(batch)
         THEN [raised |-> TRUE, rows |-> rows]
         ELSE [raised |-> FALSE,
               rows |-> rows \o StagedRows(batch, Len(rows) + 1)]

RECURSIVE FallbackLoop(_, _, _)
\* for i, feature in enumerate(src), from feature i + 1 on
FallbackLoop(features, i, acc) ==
    IF i >= Len(features) THEN acc
    ELSE
      LET p == PrepareFeature(features[i + 1], i)
      IN  IF p.rejected
          THEN FallbackLoop(features, i + 1,
                   [acc EXCEPT !.error_count = @ + 1])
          ELSE
            LET batch == Append(acc.batch, p.item)
            IN  IF Len(batch) >= batch_size
                THEN LET ins == _execute_batch_insert(acc.rows, batch, acc.aborted)
                     IN  IF ins.raised
                         THEN FallbackLoop(features, i + 1,
                                  [acc EXCEPT !.batch = batch,
                                              !.aborted = TRUE,
                                              !.error_count = @ + 1])
                         ELSE FallbackLoop(features, i + 1,
                                  [acc EXCEPT !.batch = <<>>,
                                              !.rows = ins.rows,
                                              !.imported_count = @ + Len(batch)])
                ELSE FallbackLoop(features, i + 1, [acc EXCEPT !.batch = batch])

FallbackColumns == <<"id", "geometry", "attributes", "original_fid",
                     "import_timestamp">>

\* import_with_python_fallback: the value returned, the staging table it
\* leaves committed, and its counters
import_with_python_fallback(features, libs, openable, source_crs) ==
    IF ~libs
    THEN [success |-> FALSE, created |-> FALSE, rows |-> <<>>,
          imported_count |-> 0, error_count |-> 0]
    ELSE IF ~openable  \* fiona.open raises after the table was created
    THEN [success |-> FALSE, created |-> TRUE, rows |-> <<>>,
          imported_count |-> 0, error_count |-> 0]
    ELSE
      LET acc == FallbackLoop(Reprojected(features, Transformer(source_crs)), 0,
                     [batch |-> <<>>, rows |-> <<>>, imported_count |-> 0,
                      error_count |-> 0, aborted |-> FALSE])
          last == _execute_batch_insert(acc.rows, acc.batch, acc.aborted)
          imported == acc.imported_count + Len(acc.batch)
      IN  IF last.raised
          THEN \* except: rollback of the inserts; the table stays created
               [success |-> FALSE, created |-> TRUE, rows |-> <<>>,
                imported_count |-> acc.imported_count,
                error_count |-> acc.error_count]
          ELSE [success |-> imported > 0, created |-> TRUE,
                rows |-> last.rows, imported_count |-> imported,
                error_count |-> acc.error_count]

----------------------------------------------------------------------------
(* Native fallback readers of seed_data and seed_import                    *)

RECURSIVE SeedDataLoop(_, _, _)
\* for i, feature in enumerate(src): one INSERT per feature, each in the
\* per-feature try; a failed INSERT aborts the transaction
SeedDataLoop(features, i, acc) ==
    IF i >= Len(features) THEN acc
    ELSE
      LET g == features[i + 1].geometry
          gg == IF IsValid(g) THEN g ELSE Buffer0(g)
          ty == IF IsValid(g) THEN "MultiPolygon" ELSE GeomType(gg)
      IN  IF ~Parsable(g) THEN SeedDataLoop(features, i + 1, acc)
          ELSE IF GeomType(g) \notin {"Polygon", "MultiPolygon"}
               THEN SeedDataLoop(features, i + 1, acc)
          ELSE IF acc.aborted \/ ty # "MultiPolygon"
               THEN SeedDataLoop(features, i + 1, [acc EXCEPT !.aborted = TRUE])
          ELSE SeedDataLoop(features, i + 1,
                   [acc EXCEPT !.imported_count = @ + 1,
                               !.rows = Append(@,
                                   [id |-> Len(@) + 1, geometry |-> Geom(gg, ty),
                                    attributes |-> features[i + 1].properties,
                                    original_fid |-> -1])])

SeedDataColumns == <<"id", "geometry", "attributes">>

\* EnhancedShapefileImporter.import_with_fallback; COMMIT of an aborted
\* transaction rolls it back
import_with_fallback(features, libs, openable, source_crs) ==
    IF ~libs
    THEN [success |-> FALSE, created |-> FALSE, rows |-> <<>>,
          imported_count |-> 0, error_count |-> 0]
    ELSE IF ~openable
    THEN [success |-> FALSE, created |-> TRUE, rows |-> <<>>,
          imported_count |-> 0, error_count |-> 0]
    ELSE
      LET acc == SeedDataLoop(Reprojected(features, Transformer(source_crs)), 0,
                     [rows |-> <<>>, imported_count |-> 0, aborted |-> FALSE])
      IN  [success |-> acc.imported_count > 0, created |-> TRUE,
           rows |-> IF acc.aborted THEN <<>> ELSE acc.rows,
           imported_count |-> acc.imported_count, error_count |-> 0]

RECURSIVE SeedImportLoop(_, _, _)
\* for feat in src: no handler around the feature, so the first one that
\* raises ends the load
SeedImportLoop(features, i, acc) ==
    IF i >= Len(features) \/ acc.raised THEN acc
    ELSE
      LET g == features[i + 1].geometry
          ty == IF Parsable(g) /\ GeomType(g) = "Polygon" THEN "MultiPolygon"
                ELSE GeomType(g)
      IN  IF ~Parsable(g) \/ ty # "MultiPolygon"
          THEN [acc EXCEPT !.raised = TRUE]
          ELSE SeedImportLoop(features, i + 1,
                   [acc EXCEPT !.rows = Append(@,
                       [id |-> Len(@) + 1, geometry |-> Geom(g, ty),
                        attributes |-> features[i + 1].properties,
                        original_fid |-> -1])])

SeedImportColumns == <<"id", "attributes", "geometry">>

\* fallback_python_import: raises, or leaves the staging table loaded; the
\* CRS and the transformer are built outside any handler
fallback_python_import(features, libs, openable, source_crs) ==
    IF ~libs THEN [raised |-> TRUE, created |-> FALSE, rows |-> <<>>]
    ELSE IF ~openable THEN [raised |-> TRUE, created |-> TRUE, rows |-> <<>>]
    ELSE IF source_crs # NULL /\ ~Buildable(source_crs)
    THEN [raised |-> TRUE, created |-> TRUE, rows |-> <<>>]
    ELSE
      LET proj == IF source_crs = NULL \/ source_crs = WGS84 THEN NULL
                  ELSE source_crs
          acc == SeedImportLoop(Reprojected(features, proj), 0,
                                [rows |-> <<>>, raised |-> FALSE])
      IN  [raised |-> acc.raised, created |-> TRUE,
           rows |-> IF acc.raised THEN <<>> ELSE acc.rows]

----------------------------------------------------------------------------
(* External converter bridge                                               *)

\* what the child process and its environment can do
BridgeOutcomes == {"ok", "zero_rows", "nonzero_exit", "timeout", "error"}

\* ogr2ogr -nlt MULTIPOLYGON loads polygonal and empty geometries only
Loadable(features) ==
    \A k \in DOMAIN features :
        LET g == features[k].geometry
        IN  g = NULL \/ (Parsable(g) /\ GeomType(g) \in {"Polygon", "MultiPolygon"})

\* one column per field, named by the laundered field name
Columns(props) ==
    [c \in {Lower(f) : f \in DOMAIN props} |->
        props[CHOOSE f \in DOMAIN props : Lower(f) = c]]

BridgeColumns(inv) ==
    <<"ogc_fid", "geometry">> \o
    [k \in DOMAIN Fields(inv) |-> Lower(Fields(inv)[k])]

\* the layer ogr2ogr writes with -nln, -nlt MULTIPOLYGON, -t_srs EPSG:4326,
\* GEOMETRY_NAME=geometry, FID=ogc_fid, -overwrite
BridgeRows(features) ==
    [k \in DOMAIN features |->
        [id |-> k,
         geometry |-> IF features[k].geometry = NULL THEN NullGeom
                      ELSE Geom(ToWGS84(features[k].geometry), "MultiPolygon"),
         attributes |-> Columns(features[k].properties),
         original_fid |-> -1]]

BridgeTable(inv, outcome) ==
    CASE outcome = "ok" ->
            [exists |-> TRUE, columns |-> BridgeColumns(inv),
             rows |-> BridgeRows(inv.features)]
      [] outcome = "zero_rows" ->
            [exists |-> TRUE, columns |-> BridgeColumns(inv), rows |-> <<>>]
      [] OTHER -> NoTable

\* os.path.exists of a component, and open() of one that exists
Exists(state) == state # "missing"
Readable(state) == state \in {"ok", "empty"}

\* the readers open the dataset only with its three mandatory files in place
Openable(inv) ==
    \A c \in {"shp", "shx", "dbf"} : inv.components[c] = "ok"

BridgeFeasible(inv, outcome) ==
    outcome = "ok" => Openable(inv) /\ Loadable(inv.features)

\* EnhancedShapefileProcessor.import_with_ogr2ogr: the value returned
enhanced_import_with_ogr2ogr(outcome) ==
    [raised |-> FALSE, success |-> outcome = "ok", killed |-> outcome = "timeout"]

\* EnhancedShapefileImporter.import_with_ogr2ogr: subprocess.run has no
\* timeout and the row count is only logged
seed_data_import_with_ogr2ogr(gdal, outcome) ==
    IF ~gdal THEN [raised |-> FALSE, success |-> FALSE, killed |-> FALSE]
    ELSE [raised |-> FALSE, success |-> outcome \in {"ok", "zero_rows"},
          killed |-> FALSE]

\* seed_import.import_with_ogr2ogr: only CalledProcessError is handled
seed_import_import_with_ogr2ogr(gdal, outcome) ==
    IF ~gdal THEN [raised |-> FALSE, success |-> FALSE, killed |-> FALSE]
    ELSE [raised |-> outcome = "error",
          success |-> outcome \in {"ok", "zero_rows"}, killed |-> FALSE]

----------------------------------------------------------------------------
(* SQL expressions of the upsert statements                                *)

RECURSIVE FirstNonNull(_)
\* COALESCE over texts
FirstNonNull(ts) ==
    IF ts = <<>> THEN NULL
    ELSE IF Head(ts) # NULL THEN Head(ts) ELSE FirstNonNull(Tail(ts))

\* '<prefix>' || LPAD(ROW_NUMBER() OVER (...)::text, 4, '0')
SynthPlotCode(prefix, k) == prefix \o Join(LPAD(Digits(k), 4, "0"))

RECURSIVE AreaFromKeys(_, _, _)
\* COALESCE(CAST(NULLIF(attributes->>key, '') AS NUMERIC), ..., computed)
AreaFromKeys(attrs, keys, g) ==
    IF keys = <<>> THEN [err |-> FALSE, val |-> ComputedAreaHectares(g)]
    ELSE LET txt == JsonText(attrs, Head(keys))
         IN  IF txt = NULL \/ txt = "" THEN AreaFromKeys(attrs, Tail(keys), g)
             ELSE Numeric(txt)

\* WHERE geometry IS NOT NULL AND ST_IsValid(geometry) AND ST_Area(geometry) > 0
PassesFilter(row) ==
    /\ row.geometry.g # NULL
    /\ IsValid(row.geometry.g)
    /\ PlanarAreaPositive(row.geometry.g)

\* a || b on jsonb objects
Merge(a, b) ==
    [k \in DOMAIN a \cup DOMAIN b |-> IF k \in DOMAIN b THEN b[k] ELSE a[k]]

Timestamp(t) == JStr("t" \o Join(Digits(t)))

\* a SELECT list whose plot code changes from one run to the next
PlotRowCodePerRun(inv, code, area, g, attrs, t) ==
    [plot_code |-> code \o "#" \o Join(Digits(t)), status |-> "available",
     area_hectares |-> area, district |-> inv.district, ward |-> inv.ward,
     village |-> inv.village, dataset_name |-> inv.dataset_name,
     geometry |-> Geom(g, "MultiPolygon"), attributes |-> attrs,
     created_at |-> t, updated_at |-> t]

\* a SELECT list that takes the status from the source attributes
PlotRowStatusFromSource(inv, code, area, g, attrs, t) ==
    [plot_code |-> code,
     status |-> IF "STATUS" \in DOMAIN attrs THEN attrs["STATUS"].v
                ELSE IF "status" \in DOMAIN attrs THEN attrs["status"].v
                ELSE "available",
     area_hectares |-> area, district |-> inv.district, ward |-> inv.ward,
     village |-> inv.village, dataset_name |-> inv.dataset_name,
     geometry |-> Geom(g, "MultiPolygon"), attributes |-> attrs,
     created_at |-> t, updated_at |-> t]

\* the row the SELECT list builds; ST_Multi(ST_Force2D(geometry))
PlotRow(inv, code, area, g, attrs, t) ==
    [plot_code |-> code, status |-> "available", area_hectares |-> area,
     district |-> inv.district, ward |-> inv.ward, village |-> inv.village,
     dataset_name |-> inv.dataset_name, geometry |-> Geom(g, "MultiPolygon"),
     attributes |-> attrs, created_at |-> t, updated_at |-> t]

EnhancedCodeKeys == <<"plot_code", "PLOT_CODE", "plotcode", "code", "PLOT_NO",
                      "PLOTNUM">>
EnhancedAreaKeys == <<"area_ha", "AREA_HA", "area", "AREA", "hectares">>
SeedDataCodeKeys == <<"plot_code", "PLOT_CODE", "plotcode", "code", "PLOT_NO">>
SeedDataAreaKeys == <<"area_ha", "AREA_HA", "area", "AREA">>

\* the SELECT over a staging table with an attributes column
AttributesSelect(rows, inv, t, code_keys, area_keys, provenance) ==
    LET kept == SelectSeq(rows, PassesFilter)
    IN  [k \in DOMAIN kept |->
          LET r == kept[k]
              explicit == FirstNonNull(
                  [j \in DOMAIN code_keys |-> JsonText(r.attributes, code_keys[j])])
              code == IF explicit # NULL THEN explicit
                      ELSE SynthPlotCode(inv.dataset_name \o "_", k)
              area == AreaFromKeys(r.attributes, area_keys, r.geometry.g)
              attrs == IF provenance
                       THEN Merge(r.attributes,
                                [import_method |-> JStr("python_fallback"),
                                 import_timestamp |-> Timestamp(t),
                                 original_fid |-> JNum(Join(Digits(r.original_fid)))])
                       ELSE r.attributes
          IN  [err |-> area.err,
               row |-> PlotRow(inv, code, area.val, r.geometry.g, attrs, t)]]

ColumnCodeNames == {"plot_code", "plotcode", "code", "plot_no", "plotnum",
                    "plot_id"}
EnhancedAreaNames == {"area_ha", "area", "hectares", "area_hect", "area_m2"}
SeedDataAreaNames == {"area_ha", "area", "hectares", "area_hect"}
EnhancedSystemColumns == {"id", "geometry", "ogc_fid", "wkb_geometry",
                          "import_timestamp"}
SeedDataSystemColumns == {"id", "geometry", "ogc_fid", "wkb_geometry"}

\* for col in attr_columns: if col.lower() in names: ...; break
FirstColumnIn(attr_columns, names) ==
    LET hits == SelectSeq(attr_columns, LAMBDA c : Lower(c) \in names)
    IN  IF hits = <<>> THEN NULL ELSE hits[1]

\* the SELECT over a staging table with one column per field
ColumnsSelect(table, inv, t, system, area_names, provenance) ==
    LET kept == SelectSeq(table.rows, PassesFilter)
        attr_columns == SelectSeq(table.columns, LAMBDA c : c \notin system)
        plot_code_col == FirstColumnIn(attr_columns, ColumnCodeNames)
        area_col == FirstColumnIn(attr_columns, area_names)
    IN  [k \in DOMAIN kept |->
          LET r == kept[k]
              json == [c \in Range(attr_columns) |->
                         IF TextOf(r.attributes[c]) = NULL THEN JStr("")
                         ELSE JStr(TextOf(r.attributes[c]))]
              txt == IF plot_code_col = NULL THEN NULL
                     ELSE TextOf(r.attributes[plot_code_col])
              code == IF txt = NULL \/ txt = ""
                      THEN SynthPlotCode(inv.dataset_name \o "_", k) ELSE txt
              area == IF area_col = NULL
                      THEN [err |-> FALSE, val |-> ComputedAreaHectares(r.geometry.g)]
                      ELSE AreaFromKeys(r.attributes, <<area_col>>, r.geometry.g)
              attrs == IF provenance
                       THEN Merge(json, [import_method |-> JStr("ogr2ogr"),
                                         import_timestamp |-> Timestamp(t)])
                       ELSE json
          IN  [err |-> area.err,
               row |-> PlotRow(inv, code, area.val, r.geometry.g, attrs, t)]]


\* sort position of the values of the first attribute column (text order,
\* NULLS LAST)
SortRank(j) ==
    IF j.t = "null" THEN 99
    ELSE CASE j.v = "" -> 0
           [] j.v = "A1" -> 1 [] j.v = "A2" -> 2 [] j.v = "A3" -> 3
           [] j.v = "Asha" -> 4 [] j.v = "Juma" -> 5 [] j.v = "Neema" -> 6
           [] j.v = "O'Brien" -> 7 [] OTHER -> 50

SeedImportCodeNames == {"plot_code", "plotid", "code", "plot_no", "plotnum"}

\* the SELECT of normalize_into_land_plots over a table with one column per
\* field: every staged row, numbered by the first attribute column
SeedImportSelect(table, inv, t) ==
    LET rows == table.rows
        attr_cols == SelectSeq(table.columns,
                               LAMBDA c : c \notin {"geometry", "ogc_fid"})
        attr_key == FirstColumnIn(attr_cols, SeedImportCodeNames)
        key(i) == SortRank(rows[i].attributes[attr_cols[1]])
        row_number(i) ==
            1 + Cardinality({j \in DOMAIN rows :
                               key(j) < key(i) \/ (key(j) = key(i) /\ j < i)})
    IN  [k \in DOMAIN rows |->
          LET r == rows[k]
              json == [c \in {c \in Range(attr_cols) : r.attributes[c].t # "null"}
                         |-> r.attributes[c]]
              txt == IF attr_key = NULL THEN NULL ELSE TextOf(r.attributes[attr_key])
              code == IF txt = NULL THEN SynthPlotCode("MBY-", row_number(k))
                      ELSE txt
          IN  [err |-> FALSE,
               row |-> [PlotRow(inv, code, ComputedAreaHectares(r.geometry.g),
                                r.geometry.g, json, t)
                        EXCEPT !.geometry = IF r.geometry.g = NULL THEN NullGeom
                                            ELSE @]]]

----------------------------------------------------------------------------
(* Table land_plots: constraints and the INSERT statements                 *)

\* a table without the unique index
UniqueConflictNever(table, code) == FALSE

\* plot_code text UNIQUE NOT NULL: the unique index on plot_code
UniqueConflict(table, code) == \E r \in table : r.plot_code = code

\* a table that only has geometry NOT NULL
ViolatesNotNullOnly(row) == row.geometry.g = NULL

\* CHECK (area_hectares > 0), geometry NOT NULL
ViolatesCheck(row) == row.area_hectares <= 0 \/ row.geometry.g = NULL

Ids(table) == {r.id : r \in table}
NewId(table) ==
    IF table = {} THEN 1
    ELSE 1 + (CHOOSE m \in Ids(table) : \A n \in Ids(table) : n <= m)

\* a DO UPDATE that takes the whole proposed row
DoUpdateWholeRow(old, excluded) == [id |-> old.id] @@ excluded

\* ON CONFLICT (plot_code) DO UPDATE SET updated_at = NOW(),
\*                                       attributes = EXCLUDED.attributes
DoUpdate(old, excluded) ==
    [old EXCEPT !.updated_at = excluded.updated_at,
                !.attributes = excluded.attributes]

RECURSIVE InsertRows(_, _, _, _, _)
\* INSERT INTO land_plots ... SELECT, row by row from candidate k on.
\* touched: ids this statement inserted or updated (DO UPDATE cannot affect
\* a row a second time).  table is what the statement has written so far.
InsertRows(table, cands, k, touched, policy) ==
    IF k > Len(cands)
    THEN [err |-> FALSE, table |-> table, affected |-> Cardinality(touched)]
    ELSE
      LET c == cands[k]
          fail == [err |-> TRUE, table |-> table, affected |-> 0]
      IN  IF c.err \/ ViolatesCheck(c.row) THEN fail
          ELSE IF UniqueConflict(table, c.row.plot_code)
          THEN CASE policy = "do_nothing" ->
                      InsertRows(table, cands, k + 1, touched, policy)
                 [] policy = "do_update" ->
                      LET old == CHOOSE r \in table : r.plot_code = c.row.plot_code
                      IN  IF old.id \in touched THEN fail
                          ELSE InsertRows(
                                   (table \ {old}) \cup {DoUpdate(old, c.row)},
                                   cands, k + 1, touched \cup {old.id}, policy)
                 [] OTHER -> fail
          ELSE LET id == NewId(table)
               IN  InsertRows(table \cup {[id |-> id] @@ c.row}, cands, k + 1,
                              touched \cup {id}, policy)

\* WHERE NOT EXISTS (SELECT 1 FROM land_plots lp WHERE lp.plot_code = ...),
\* evaluated on the statement's snapshot
NotExists(table, cands) ==
    SelectSeq(cands, LAMBDA c : ~\E r \in table : r.plot_code = c.row.plot_code)

\* a failure path that commits what the statement had written
RollbackKeepsWritten(before, written) == written

\* db.rollback() / leaving engine.begin() on an exception
Rollback(before, written) == before

----------------------------------------------------------------------------
(* The upsert stage                                                        *)

HasAttributesCol(table) == "attributes" \in Range(table.columns)

ConflictPolicy(importer) ==
    CASE importer = "enhanced_seed" -> "do_update"
      [] importer = "seed_data"     -> "do_nothing"
      [] OTHER                      -> "plain"

\* the rows the INSERT ... SELECT of each importer offers to land_plots.
\* In seed_import the statement for a table with an attributes column sits
\* after the break of the key search and is never executed.
UpsertCandidates(importer, table, inv, t, lp) ==
    CASE importer = "enhanced_seed" ->
            IF HasAttributesCol(table)
            THEN AttributesSelect(table.rows, inv, t, EnhancedCodeKeys,
                                  EnhancedAreaKeys, TRUE)
            ELSE ColumnsSelect(table, inv, t, EnhancedSystemColumns,
                               EnhancedAreaNames, TRUE)
      [] importer = "seed_data" ->
            IF HasAttributesCol(table)
            THEN AttributesSelect(table.rows, inv, t, SeedDataCodeKeys,
                                  SeedDataAreaKeys, FALSE)
            ELSE ColumnsSelect(table, inv, t, SeedDataSystemColumns,
                               SeedDataAreaNames, FALSE)
      [] OTHER ->
            IF HasAttributesCol(table) THEN <<>>
            ELSE NotExists(lp, SeedImportSelect(table, inv, t))

CountDataset(lp, name) == Cardinality({r \in lp : r.dataset_name = name})

\* EnhancedShapefileProcessor.process_imported_data and
\* EnhancedShapefileImporter.process_imported_data.  dberr: the store fails
\* the INSERT for a reason of its own.  The result: what was raised, the
\* committed land_plots, the value returned, whether the staging table was
\* dropped.
process_imported_data(importer, table, inv, t, lp, dberr) ==
    LET none == [raised |-> "none", land_plots |-> lp, inserted_count |-> 0,
                 dropped |-> FALSE]
    IN  IF ~table.exists THEN [none EXCEPT !.raised = "no_table"]
        ELSE IF Len(table.rows) = 0 THEN [none EXCEPT !.raised = "no_data"]
        ELSE
          LET ins == InsertRows(lp, UpsertCandidates(importer, table, inv, t, lp),
                                1, {}, ConflictPolicy(importer))
          IN  IF ins.err \/ dberr
              THEN [none EXCEPT !.raised = "upsert",
                                !.land_plots = Rollback(lp, ins.table)]
              ELSE
                LET inserted_count == CountDataset(ins.table, inv.dataset_name)
                IN  \* f"{stats.min_area:.4f}" of the aggregates over no row
                    IF inserted_count = 0
                    THEN [none EXCEPT !.raised = "stats",
                                      !.land_plots = ins.table]
                    ELSE [raised |-> "none", land_plots |-> ins.table,
                          inserted_count |-> inserted_count, dropped |-> TRUE]

\* normalize_into_land_plots: one transaction
normalize_into_land_plots(table, inv, t, lp, dberr) ==
    LET none == [raised |-> "none", land_plots |-> lp, inserted_count |-> 0,
                 dropped |-> FALSE]
    IN  IF ~table.exists THEN [none EXCEPT !.raised = "no_table"]
        ELSE
          LET ins == InsertRows(lp, UpsertCandidates("seed_import", table, inv, t, lp),
                                1, {}, ConflictPolicy("seed_import"))
          IN  IF ins.err \/ dberr
              THEN [none EXCEPT !.raised = "upsert",
                                !.land_plots = Rollback(lp, ins.table)]
              ELSE [none EXCEPT !.land_plots = ins.table]

----------------------------------------------------------------------------
(* The import ledger                                                       *)

\* what ogrinfo -so -al yields when every line is found, and the defaults
\* that stay when it is not; the extent is kept as the geometries it
\* encloses
NoExtent == {}
Extent(geoms) == geoms \ {NULL}
DefaultMetadata ==
    [feature_count |-> 0, spatial_extent |-> NoExtent, fields |-> <<>>]
FullMetadata(inv) ==
    [feature_count |-> Len(inv.features),
     spatial_extent |->
         Extent({inv.features[k].geometry : k \in DOMAIN inv.features}),
     fields |-> Fields(inv)]

\* the type ogrinfo prints for a field
FieldType(f) == IF f = "AREA" THEN "Real" ELSE "String"

\* {field['name']: field['type'] for field in metadata.get('fields', [])}
Schema(fields) == [f \in Range(fields) |-> FieldType(f)]

\* sha256 of the content of a component: distinct contents, distinct digests
SHA256(inv, ext) ==
    IF inv.components[ext] = "empty" THEN "e3b0c442"
    ELSE inv.dataset_name \o "." \o ext

\* file_hashes: one digest per component that exists
FileHashes(inv) ==
    [ext \in {c \in DOMAIN inv.components : Exists(inv.components[c])} |->
        SHA256(inv, ext)]

\* validation_result['projection'] and ['encoding']: the stripped text of
\* the file when it exists and can be read
Projection(inv) ==
    CASE inv.components.prj = "ok"    -> inv.crs
      [] inv.components.prj = "empty" -> ""
      [] OTHER                        -> NULL
Encoding(inv) ==
    CASE inv.components.cpg = "ok"    -> "UTF-8"
      [] inv.components.cpg = "empty" -> ""
      [] OTHER                        -> NULL

\* the count each importer hands to the ledger
LedgerFeatureCount(importer, inv, lp, inserted_count) ==
    IF importer = "seed_import"
    THEN Cardinality({r \in lp : /\ r.district = inv.district
                                 /\ r.ward = inv.ward
                                 /\ r.village = inv.village})
    ELSE inserted_count

\* import_data of EnhancedShapefileProcessor.create_import_record
EnhancedImportData(inv, metadata, feature_count) ==
    [dataset_name |-> inv.dataset_name, prj |-> Projection(inv),
     cpg |-> Encoding(inv), dbf_schema |-> Schema(metadata.fields),
     file_hashes |-> FileHashes(inv), feature_count |-> feature_count,
     bbox |-> metadata.spatial_extent]

\* the parameters of the metadata upsert of seed: the schema by ogrinfo
\* when it is installed, count and extent of the rows of the location
SeedImportData(inv, lp, gdal) ==
    LET here == {r \in lp : /\ r.district = inv.district
                            /\ r.ward = inv.ward
                            /\ r.village = inv.village}
    IN  [dataset_name |-> inv.dataset_name, prj |-> Projection(inv),
         cpg |-> Encoding(inv),
         dbf_schema |-> IF gdal /\ Openable(inv) THEN Schema(Fields(inv))
                        ELSE Schema(<<>>),
         file_hashes |-> FileHashes(inv),
         feature_count |-> LedgerFeatureCount("seed_import", inv, lp, 0),
         bbox |-> Extent({r.geometry.g : r \in here})]

\* INSERT INTO shapefile_imports ... ON CONFLICT (dataset_name) DO UPDATE
\* SET every column = EXCLUDED, imported_at = NOW()
UpsertImportRecord(ledger, import_data, t) ==
    LET name == import_data.dataset_name
        row(id) == [id |-> id, dataset_name |-> name,
                    prj |-> import_data.prj, cpg |-> import_data.cpg,
                    dbf_schema |-> import_data.dbf_schema,
                    file_hashes |-> import_data.file_hashes,
                    feature_count |-> import_data.feature_count,
                    bbox |-> import_data.bbox, imported_at |-> t]
    IN  IF \E r \in ledger : r.dataset_name = name
        THEN {IF r.dataset_name = name THEN row(r.id) ELSE r : r \in ledger}
        ELSE ledger \cup {row(NewId(ledger))}

\* seed reads each component that exists outside any handler
SidecarsReadable(inv) ==
    \A c \in DOMAIN inv.components :
        Exists(inv.components[c]) => Readable(inv.components[c])

\* does the ledger stage fail: the store rejects the write, seed cannot
\* read a component, and seed_data builds ShapefileImport with keywords the
\* mapped class does not have, so it raises before any write
LedgerFails(importer, inv, failed) ==
    \/ failed
    \/ importer = "seed_data"
    \/ importer = "seed_import" /\ ~SidecarsReadable(inv)

\* create_import_record of each importer, and the metadata upsert of seed:
\* the committed ledger
create_import_record(importer, ledger, inv, lp, inserted_count, t, failed, metadata, gdal) ==
    IF LedgerFails(importer, inv, failed) THEN ledger
    ELSE IF importer = "seed_import"
    THEN UpsertImportRecord(ledger, SeedImportData(inv, lp, gdal), t)
    ELSE UpsertImportRecord(ledger,
             EnhancedImportData(inv, metadata,
                 LedgerFeatureCount(importer, inv, lp, inserted_count)), t)

----------------------------------------------------------------------------
(* Component validation and inspection                                     *)


\* a validator that looks at the geometry file only
validate_shp_only(components) ==
    [valid |-> Exists(components.shp),
     missing_required |-> SelectSeq(<<"shp">>, LAMBDA c : ~Exists(components[c]))]

\* validate_shapefile_components: valid and missing_required
validate_shapefile_components(components) ==
    [valid |-> /\ \A c \in DOMAIN components :
                     Exists(components[c]) => Readable(components[c])
               /\ \A c \in {"shp", "shx", "dbf"} : Exists(components[c]),
     missing_required |->
         SelectSeq(<<"shp", "shx", "dbf">>, LAMBDA c : ~Exists(components[c]))]

\* seed_sample_data: the sample path, then the three required files, by
\* os.path.exists
required_files(components) ==
    [valid |-> \A c \in {"shp", "shx", "dbf"} : Exists(components[c]),
     missing_required |->
         SelectSeq(<<"shp", "shx", "dbf">>, LAMBDA c : ~Exists(components[c]))]

\* seed: os.path.exists(shapefile)
shapefile_exists(components) ==
    [valid |-> Exists(components.shp),
     missing_required |-> SelectSeq(<<"shp">>, LAMBDA c : ~Exists(components[c]))]

\* what the run checks before it touches the store, and what the error
\* raised or logged names
Validation(importer, inv) ==
    CASE importer = "enhanced_seed" ->
            validate_shapefile_components(inv.components)
      [] importer = "seed_data" -> required_files(inv.components)
      [] OTHER -> shapefile_exists(inv.components)

Validated(importer, inv) == Validation(importer, inv).valid

\* what the metadata inspector and its host can do: every line parsed, a
\* non-zero exit, the 30 s timeout, an output in which no line matches, and
\* no ogrinfo on the path
InspectorOutcomes == {"ok", "nonzero_exit", "timeout", "drift", "absent"}

\* ogrinfo comes with the converter; only enhanced_seed sets a timeout
InspectorFeasible(importer, inv, gdal, info) ==
    /\ ~gdal => info = "absent"
    /\ info \in {"ok", "drift"} => Openable(inv)
    /\ info = "timeout" => importer = "enhanced_seed"

\* get_shapefile_metadata: CalledProcessError and TimeoutExpired are
\* handled, FileNotFoundError is not
get_shapefile_metadata(inv, info) ==
    [raised |-> info = "absent",
     metadata |-> IF info = "ok" THEN "full" ELSE "default"]

\* get_shapefile_info: 'Feature Count:' of ogrinfo -so -al; 0 stays when
\* the tool cannot run or prints no such line
InfoFeatureCount(inv, info) ==
    IF info = "ok" THEN FullMetadata(inv).feature_count
    ELSE DefaultMetadata.feature_count

\* the metadata a run holds
MetadataOf(inv, metadata) ==
    IF metadata = "full" THEN FullMetadata(inv) ELSE DefaultMetadata

----------------------------------------------------------------------------
(* The import run                                                          *)

Slots == {1}

IdleProc ==
    [pc |-> "idle", importer |-> "none", inv |-> 0, gdal |-> FALSE, t |-> 0,
     success |-> FALSE, bridge |-> "none", fallback |-> "none",
     strategy |-> "none", raised |-> "none", inserted_count |-> 0,
     imported_count |-> 0, error_count |-> 0, rows_before |-> 0,
     libs |-> FALSE, detail |-> <<>>, metadata |-> "default",
     committed |-> FALSE, ledger |-> "none", session |-> "ok"]

\* what makes two runs the same import: importer, invocation, the strategy
\* that staged the data and what it reported, and how the run ended
Signature(p) ==
    [importer |-> p.importer, inv |-> p.inv, strategy |-> p.strategy,
     staged |-> IF p.strategy = "bridge" THEN p.bridge ELSE p.fallback,
     pc |-> p.pc]
NoRun == [importer |-> "none", inv |-> 0, strategy |-> "none",
          staged |-> "none", pc |-> "idle"]

Table(p) == TempTable(p.importer, p.t)
Ended(p) == p.pc \in {"done", "failed"}

\* the runs of one behaviour are made on one host: the converter is
\* installed for all of them or for none
StartRun(s, importer, i, gdal) ==
    /\ proc[s].pc = "idle" \/ Ended(proc[s])
    /\ now < MaxRuns
    /\ Ended(proc[s]) => gdal = proc[s].gdal
    /\ now' = now + 1
    /\ prev_run' = IF Ended(proc[s]) THEN Signature(proc[s]) ELSE prev_run
    /\ proc' = [proc EXCEPT ![s] =
                  [IdleProc EXCEPT !.pc = "start", !.importer = importer,
                                   !.inv = i, !.gdal = gdal, !.t = now + 1,
                                   !.rows_before = Cardinality(land_plots)]]
    /\ UNCHANGED <<land_plots, shapefile_imports, plot_orders, staging>>

\* Step 1 of process_shapefile; the file tests of seed_sample_data ahead of
\* import_shapefile; the existence test of seed, with its ensure_schema and
\* DROP TABLE IF EXISTS
Validate(s) ==
    LET p == proc[s]
        inv == Catalogue[p.inv]
    IN  /\ p.pc = "start"
        /\ IF ~Validated(p.importer, inv)
           THEN /\ proc' = [proc EXCEPT
                      ![s].pc = "failed",
                      ![s].raised = "validation",
                      ![s].detail = Validation(p.importer, inv).missing_required]
                /\ UNCHANGED staging
           ELSE IF p.importer = "seed_import"
           THEN /\ proc' = [proc EXCEPT ![s].pc = "bridge"]
                /\ staging' = [staging EXCEPT ![Table(p)] = NoTable]
           ELSE /\ proc' = [proc EXCEPT ![s].pc = "inspect"]
                /\ UNCHANGED staging
        /\ UNCHANGED <<land_plots, shapefile_imports, plot_orders, now,
                       prev_run>>

\* Steps 2 and 3 of process_shapefile, which asks the inspector only when
\* the converter is there; get_shapefile_info and the feature-count test of
\* import_shapefile
Inspect(s, info) ==
    LET p == proc[s]
        inv == Catalogue[p.inv]
        md == get_shapefile_metadata(inv, info)
    IN  /\ p.pc = "inspect"
        /\ InspectorFeasible(p.importer, inv, p.gdal, info)
        /\ IF p.importer = "seed_data"
           THEN IF InfoFeatureCount(inv, info) = 0
                THEN proc' = [proc EXCEPT ![s].pc = "failed",
                                          ![s].raised = "no_features"]
                ELSE proc' = [proc EXCEPT ![s].pc = "bridge"]
           ELSE IF p.gdal /\ md.raised
                THEN proc' = [proc EXCEPT ![s].pc = "failed",
                                          ![s].raised = "inspector"]
                ELSE proc' = [proc EXCEPT
                         ![s].pc = "bridge",
                         ![s].metadata = IF p.gdal THEN md.metadata
                                         ELSE "default"]
        /\ UNCHANGED <<land_plots, shapefile_imports, plot_orders, staging,
                       now, prev_run>>

\* a run that reads the dataset again whatever the bridge reported
AfterBridgeAlwaysFallback(res) ==
    IF res.raised THEN "failed" ELSE "fallback"

\* success = import_with_ogr2ogr(...); if not success: the fallback
AfterBridge(res) ==
    IF res.raised THEN "failed"
    ELSE IF res.success THEN "upsert" ELSE "fallback"

\* Step 4, first strategy: import_with_ogr2ogr of the three importers
Bridge(s, outcome) ==
    LET p == proc[s]
        inv == Catalogue[p.inv]
        res == CASE p.importer = "enhanced_seed" ->
                      enhanced_import_with_ogr2ogr(outcome)
                 [] p.importer = "seed_data" ->
                      seed_data_import_with_ogr2ogr(p.gdal, outcome)
                 [] OTHER -> seed_import_import_with_ogr2ogr(p.gdal, outcome)
    IN  /\ p.pc = "bridge"
        /\ p.gdal
        /\ BridgeFeasible(inv, outcome)
        /\ p.importer # "enhanced_seed" => outcome # "timeout"
        /\ staging' = [staging EXCEPT ![Table(p)] = BridgeTable(inv, outcome)]
        /\ proc' = [proc EXCEPT
              ![s].bridge = outcome,
              ![s].success = res.success,
              ![s].strategy = IF res.success THEN "bridge" ELSE "none",
              ![s].raised = IF res.raised THEN "bridge_error" ELSE "none",
              ![s].pc = AfterBridge(res)]
        /\ UNCHANGED <<land_plots, shapefile_imports, plot_orders, now,
                       prev_run>>

\* the converter is not installed: process_shapefile skips the bridge,
\* the other two return False from it
BridgeUnavailable(s) ==
    LET p == proc[s]
    IN  /\ p.pc = "bridge"
        /\ ~p.gdal
        /\ proc' = [proc EXCEPT
              ![s].bridge = IF p.importer = "enhanced_seed" THEN "skipped"
                            ELSE "unavailable",
              ![s].success = FALSE,
              ![s].pc = "fallback"]
        /\ UNCHANGED <<land_plots, shapefile_imports, plot_orders, staging,
                       now, prev_run>>

\* Step 4, second strategy: the native fallback reader
Fallback(s, libs) ==
    LET p == proc[s]
        inv == Catalogue[p.inv]
        open == Openable(inv)
    IN  /\ p.pc = "fallback"
        /\ IF p.importer = "seed_import"
           THEN LET r == fallback_python_import(inv.features, libs, open, inv.crs)
                IN  /\ staging' = IF r.created
                                  THEN [staging EXCEPT ![Table(p)] =
                                          [exists |-> TRUE,
                                           columns |-> SeedImportColumns,
                                           rows |-> r.rows]]
                                  ELSE staging
                    /\ proc' = [proc EXCEPT
                          ![s].fallback = IF r.raised THEN "raised" ELSE "ok",
                          ![s].libs = libs,
                          ![s].success = ~r.raised,
                          ![s].strategy = IF r.raised THEN "none" ELSE "fallback",
                          ![s].raised = IF r.raised THEN "fallback_error"
                                        ELSE "none",
                          ![s].pc = IF r.raised THEN "failed" ELSE "upsert"]
           ELSE LET r == IF p.importer = "enhanced_seed"
                         THEN import_with_python_fallback(inv.features, libs, open, inv.crs)
                         ELSE import_with_fallback(inv.features, libs, open,
                                                   inv.crs)
                    cols == IF p.importer = "enhanced_seed" THEN FallbackColumns
                            ELSE SeedDataColumns
                IN  /\ staging' = IF r.created
                                  THEN [staging EXCEPT ![Table(p)] =
                                          [exists |-> TRUE, columns |-> cols,
                                           rows |-> r.rows]]
                                  ELSE staging
                    /\ proc' = [proc EXCEPT
                          ![s].fallback = IF r.success THEN "ok" ELSE "failed",
                          ![s].libs = libs,
                          ![s].success = r.success,
                          ![s].strategy = IF r.success THEN "fallback" ELSE "none",
                          ![s].imported_count = r.imported_count,
                          ![s].error_count = r.error_count,
                          ![s].raised = IF r.success THEN "none"
                                        ELSE "import_failed",
                          ![s].pc = IF r.success THEN "upsert" ELSE "failed"]
        /\ UNCHANGED <<land_plots, shapefile_imports, plot_orders, now,
                       prev_run>>

\* a run that writes its ledger record whatever the upsert did
AfterUpsertAlwaysLedger(res) == "ledger"

\* the ledger stage follows an upsert that returned
AfterUpsert(res) == IF res.raised # "none" THEN "failed" ELSE "ledger"

\* Step 5: process_imported_data / normalize_into_land_plots
Upsert(s, dberr) ==
    LET p == proc[s]
        inv == Catalogue[p.inv]
        table == staging[Table(p)]
        res == IF p.importer = "seed_import"
               THEN normalize_into_land_plots(table, inv, p.t, land_plots, dberr)
               ELSE process_imported_data(p.importer, table, inv, p.t,
                                          land_plots, dberr)
    IN  /\ p.pc = "upsert"
        /\ land_plots' = res.land_plots
        /\ staging' = IF res.dropped THEN [staging EXCEPT ![Table(p)] = NoTable]
                      ELSE staging
        /\ proc' = [proc EXCEPT
              ![s].raised = res.raised,
              ![s].inserted_count = res.inserted_count,
              ![s].committed = res.raised \in {"none", "stats"},
              ![s].pc = AfterUpsert(res)]
        /\ UNCHANGED <<shapefile_imports, plot_orders, now, prev_run>>

\* Step 6: create_import_record, whose handler logs the failure and does
\* not roll back, so that a statement the store rejected leaves the
\* transaction of the session aborted; in seed the metadata upsert, which is
\* not guarded
Ledger(s, failed) ==
    LET p == proc[s]
        inv == Catalogue[p.inv]
        fails == LedgerFails(p.importer, inv, failed)
    IN  /\ p.pc = "ledger"
        /\ shapefile_imports' =
               create_import_record(p.importer, shapefile_imports, inv,
                                    land_plots, p.inserted_count, p.t, failed,
                                    MetadataOf(inv, p.metadata), p.gdal)
        /\ proc' = [proc EXCEPT
              ![s].ledger = IF fails THEN "failed" ELSE "written",
              ![s].session = IF p.importer = "enhanced_seed" /\ failed
                             THEN "aborted" ELSE "ok",
              ![s].raised = IF p.importer = "seed_import" /\ fails
                            THEN "ledger" ELSE "none",
              ![s].pc = CASE p.importer = "enhanced_seed" -> "verify"
                          [] p.importer = "seed_data" -> "done"
                          [] OTHER -> IF fails THEN "failed" ELSE "cleanup"]
        /\ UNCHANGED <<land_plots, plot_orders, staging, now, prev_run>>

\* main of enhanced_seed after process_shapefile returned: the counts and
\* the statistics are read through the session of the run; a statement in
\* an aborted transaction raises, main rolls back and returns False
Verify(s) ==
    LET p == proc[s]
    IN  /\ p.pc = "verify"
        /\ proc' = [proc EXCEPT
              ![s].pc = IF p.session = "aborted" THEN "failed" ELSE "done",
              ![s].raised = IF p.session = "aborted" THEN "verify" ELSE "none"]
        /\ UNCHANGED <<land_plots, shapefile_imports, plot_orders, staging,
                       now, prev_run>>

\* seed: DROP TABLE IF EXISTS of the staging table, and the final report
Cleanup(s) ==
    LET p == proc[s]
    IN  /\ p.pc = "cleanup"
        /\ staging' = [staging EXCEPT ![Table(p)] = NoTable]
        /\ proc' = [proc EXCEPT ![s].pc = "done"]
        /\ UNCHANGED <<land_plots, shapefile_imports, plot_orders, now,
                       prev_run>>

----------------------------------------------------------------------------
(* The REST order handlers, each a whole request: the session that get_db  *)
(* hands to the handler is closed at the end of the request and is never   *)
(* committed                                                               *)

Order(id, plot_id, status) == [id |-> id, plot_id |-> plot_id, status |-> status]

\* db.query(LandPlot).filter(LandPlot.id == plot_id).first()
get_plot_by_id(lp, plot_id) == {r \in lp : r.id = plot_id}

\* OrderService.create_order: the order is flushed, the plot is marked
\* pending in the session
create_order(lp, orders, plot_id) ==
    [land_plots |-> {IF r.id = plot_id THEN [r EXCEPT !.status = "pending"]
                     ELSE r : r \in lp},
     plot_orders |-> orders \cup {Order(NewId(orders), plot_id, "pending")}]

\* OrderService.update_order_status: the order and its plot as the session
\* holds them when the handler returns
update_status(lp, orders, order_id, new_status) ==
    LET order == CHOOSE o \in orders : o.id = order_id
        other_pending == \E o \in orders : /\ o.plot_id = order.plot_id
                                           /\ o.id # order.id
                                           /\ o.status = "pending"
        plot_status(r) == IF new_status = "approved" THEN "taken"
                          ELSE IF new_status = "rejected" /\ ~other_pending
                               THEN "available"
                               ELSE r.status
    IN  [land_plots |-> {IF r.id = order.plot_id
                         THEN [r EXCEPT !.status = plot_status(r)]
                         ELSE r : r \in lp},
         plot_orders |-> {IF o.id = order_id
                          THEN [o EXCEPT !.status = new_status]
                          ELSE o : o \in orders}]

\* get_db: the finally clause closes the session; what the handler flushed
\* or left pending is not committed
Close(committed, in_session) == committed

\* POST /api/plots/{plot_id}/order
create_plot_order(lp, orders, plot_id) ==
    LET plot == get_plot_by_id(lp, plot_id)
        done == create_order(lp, orders, plot_id)
        same == [land_plots |-> lp, plot_orders |-> orders]
    IN  IF plot = {} THEN [code |-> 404, db |-> Close(same, same)]
        ELSE IF \E r \in plot : r.status # "available"
             THEN [code |-> 400, db |-> Close(same, same)]
             ELSE [code |-> 200, db |-> Close(same, done)]

\* PUT /api/orders/{order_id}/status
update_order_status(lp, orders, order_id, new_status) ==
    LET same == [land_plots |-> lp, plot_orders |-> orders]
    IN  IF ~\E o \in orders : o.id = order_id
        THEN [code |-> 404, db |-> Close(same, same)]
        ELSE [code |-> 200,
              db |-> Close(same, update_status(lp, orders, order_id, new_status))]

\* the ids a client asks for: some stored ones and one that is not
PlotIds == {0} \cup {id \in Ids(land_plots) : id <= 3}
OrderIds == {0} \cup Ids(plot_orders)
NewStatuses == {"pending", "approved", "rejected"}

CreatePlotOrder(plot_id) ==
    LET r == create_plot_order(land_plots, plot_orders, plot_id)
    IN  /\ land_plots' = r.db.land_plots
        /\ plot_orders' = r.db.plot_orders
        /\ UNCHANGED <<shapefile_imports, staging, now, proc, prev_run>>

UpdateOrderStatus(order_id, new_status) ==
    LET r == update_order_status(land_plots, plot_orders, order_id, new_status)
    IN  /\ land_plots' = r.db.land_plots
        /\ plot_orders' = r.db.plot_orders
        /\ UNCHANGED <<shapefile_imports, staging, now, proc, prev_run>>

----------------------------------------------------------------------------
(* The store before the first run                                          *)

\* plots of an earlier deployment, ordered since
LegacyPlot(id, code, status) ==
    [id |-> id, plot_code |-> code, status |-> status, area_hectares |-> 31416,
     district |-> "Mbuyuni", ward |-> "Mbuyuni Ward",
     village |-> "Mbuyuni Village", dataset_name |-> "legacy",
     geometry |-> Geom("g3", "MultiPolygon"),
     attributes |-> [OWNER |-> JStr("Neema")], created_at |-> 0,
     updated_at |-> 0]

LegacyStore ==
    [land_plots |-> {LegacyPlot(1, "A1", "pending"), LegacyPlot(2, "A2", "taken")},
     plot_orders |-> {Order(1, 1, "pending"), Order(2, 2, "approved")}]

EmptyStore == [land_plots |-> {}, plot_orders |-> {}]

InitialStores == {EmptyStore, LegacyStore}

Init ==
    /\ \E store \in InitialStores : /\ land_plots = store.land_plots
                                    /\ plot_orders = store.plot_orders
    /\ shapefile_imports = {}
    /\ staging = [n \in TableNames |-> NoTable]
    /\ now = 0
    /\ proc = [s \in Slots |-> IdleProc]
    /\ prev_run = NoRun

Run(s) ==
    \/ \E importer \in Importers, i \in Invocations, gdal \in BOOLEAN :
           StartRun(s, importer, i, gdal)
    \/ Validate(s)
    \/ \E info \in InspectorOutcomes : Inspect(s, info)
    \/ \E outcome \in BridgeOutcomes : Bridge(s, outcome)
    \/ BridgeUnavailable(s)
    \/ \E libs \in BOOLEAN : Fallback(s, libs)
    \/ \E dberr \in BOOLEAN : Upsert(s, dberr)
    \/ \E failed \in BOOLEAN : Ledger(s, failed)
    \/ Verify(s)
    \/ Cleanup(s)

Api ==
    \/ \E plot_id \in PlotIds : CreatePlotOrder(plot_id)
    \/ \E order_id \in OrderIds, new_status \in NewStatuses :
           UpdateOrderStatus(order_id, new_status)

Next == (\E s \in Slots : Run(s)) \/ Api

Spec == Init /\ [][Next]_vars

----------------------------------------------------------------------------
(* Re-import                                                               *)

\* C1: a run that repeats the run before it (same importer, dataset, source
\* features and strategy, both completed) ends with as many land_plots rows
\* as it started with, whatever the conflict policy of the importer
C1_RerunKeepsRowCount ==
    \A s \in Slots :
        (proc[s].pc = "done" /\ Signature(proc[s]) = prev_run)
            => Cardinality(land_plots) = proc[s].rows_before

\* a completed repeat under DO UPDATE that met rows of its first run
C1_Witness ==
    \E s \in Slots :
        /\ proc[s].pc = "done" /\ Signature(proc[s]) = prev_run
        /\ proc[s].importer = "enhanced_seed"
        /\ \E r \in land_plots :
               /\ r.dataset_name = Catalogue[proc[s].inv].dataset_name
               /\ r.created_at < r.updated_at

\* the columns DO UPDATE leaves alone
FrameOf(r) ==
    <<r.id, r.plot_code, r.geometry, r.district, r.ward, r.village, r.status,
      r.area_hectares, r.dataset_name, r.created_at>>

\* C2: in every step each stored row stays, with its id, geometry, district,
\* ward, village, status, area_hectares, dataset_name and created_at; a row
\* changes only in the upsert of the update-attributes importer, and then
\* its updated_at advances to the run's time and its attributes are those
\* the run proposes for its plot_code
C2_UpdateTouchesAttributesOnly ==
    [][\A old \in land_plots :
          \E new \in land_plots' :
             /\ FrameOf(new) = FrameOf(old)
             /\ new # old =>
                  \E s \in Slots :
                     /\ proc[s].pc = "upsert"
                     /\ ConflictPolicy(proc[s].importer) = "do_update"
                     /\ new.updated_at = proc[s].t
                     /\ new.updated_at > old.updated_at
                     /\ LET cands == UpsertCandidates(proc[s].importer,
                                        staging[Table(proc[s])],
                                        Catalogue[proc[s].inv], proc[s].t,
                                        land_plots)
                        IN  \E k \in DOMAIN cands :
                               /\ cands[k].row.plot_code = old.plot_code
                               /\ new.attributes = cands[k].row.attributes
      ]_vars

\* a re-import has rewritten the attributes of a pending and of a taken plot
C2_Witness ==
    /\ \E r \in land_plots : r.status = "pending" /\ r.updated_at > r.created_at
    /\ \E r \in land_plots : r.status = "taken" /\ r.updated_at > r.created_at

\* C3: no two rows of land_plots have the same plot_code
C3_PlotCodeUnique ==
    \A r1, r2 \in land_plots : r1.plot_code = r2.plot_code => r1 = r2

\* two runs on the same plot codes over an ordered plot, the second failed
\* in its upsert
C3_Witness ==
    /\ now = 2
    /\ \E s \in Slots : proc[s].pc = "failed" /\ proc[s].raised = "upsert"
    /\ \E r1, r2 \in land_plots :
          /\ r1.dataset_name = "legacy" /\ r1.status = "pending"
          /\ r2.dataset_name \notin {"legacy"}
    /\ plot_orders # {}

----------------------------------------------------------------------------
(* Failure handling of a run                                               *)

\* C4: a step in which the upsert stage fails on a constraint violation or a
\* store error leaves land_plots as the step found it, and the run ends
\* with the error raised
C4_FailedUpsertLeavesStore ==
    [][\A s \in Slots :
          (proc[s].pc = "upsert" /\ proc'[s].raised = "upsert")
              => land_plots' = land_plots /\ proc'[s].pc = "failed"
      ]_vars

\* the update-attributes importer failed on the second of two rows with one
\* plot code, after the statement had taken the first
C4_Witness ==
    \E s \in Slots :
        /\ proc[s].pc = "failed" /\ proc[s].raised = "upsert"
        /\ proc[s].importer = "enhanced_seed"
        /\ Catalogue[proc[s].inv].dataset_name = "twins"
        /\ Cardinality(land_plots) = proc[s].rows_before

\* the run raised at the import stage because no strategy staged the data
ImportFailureRaised(p) == p.raised \in {"import_failed", "fallback_error"}

\* the bridge was skipped or reported failure, and so did the fallback
BothStrategiesFailed(p) ==
    /\ p.bridge # "none" /\ p.strategy = "none"
    /\ p.fallback \in {"failed", "raised"}

\* C5: the fallback reader starts only after the bridge was skipped or
\* reported failure; a run enters the upsert stage only with a strategy
\* that reported success; the import failure is raised exactly when both
\* strategies reported failure
C5_FallbackOnlyAfterBridge ==
    [][\A s \in Slots :
          LET p == proc[s]
              q == proc'[s]
          IN  /\ (p.fallback = "none" /\ q.fallback # "none")
                    => p.bridge # "none" /\ ~p.success /\ p.strategy = "none"
              /\ (p.pc # "upsert" /\ q.pc = "upsert")
                    => q.success /\ q.strategy \in {"bridge", "fallback"}
              /\ ImportFailureRaised(q) <=> BothStrategiesFailed(q)
      ]_vars

\* the child was killed at the timeout, the fallback failed, the run raised
C5_Witness ==
    \E s \in Slots :
        /\ proc[s].bridge = "timeout" /\ proc[s].fallback = "failed"
        /\ proc[s].pc = "failed" /\ proc[s].raised = "import_failed"

\* C6: in enhanced_seed and seed_data a bridge that met a non-zero exit, the
\* timeout, zero rows or another error has not raised, has not reported
\* success, and the run goes on to the fallback reader
C6_BridgeFailureIsSoft ==
    \A s \in Slots :
        (/\ proc[s].importer \in {"enhanced_seed", "seed_data"}
         /\ proc[s].bridge \in {"nonzero_exit", "timeout", "zero_rows", "error"})
            => /\ proc[s].raised # "bridge_error"
               /\ proc[s].strategy # "bridge"
               /\ proc[s].pc = "fallback" \/ proc[s].fallback # "none"

\* a dataset no check of any importer objects to
CleanDataset(inv) ==
    /\ \A c \in DOMAIN inv.components : inv.components[c] = "ok"
    /\ \A k \in DOMAIN inv.features :
          LET f == inv.features[k]
          IN  /\ Parsable(f.geometry) /\ IsValid(f.geometry)
              /\ GeomType(f.geometry) \in {"Polygon", "MultiPolygon"}
              /\ ComputedAreaHectares(f.geometry) > 0
              /\ \A a \in DOMAIN f.properties : ~HasQuote(f.properties[a].v)

\* rows the dataset gets when the same run goes through the bridge
BridgePathCount(importer, inv, t, lp) ==
    LET table == BridgeTable(inv, "ok")
        res == IF importer = "seed_import"
               THEN normalize_into_land_plots(table, inv, t, lp, FALSE)
               ELSE process_imported_data(importer, table, inv, t, lp, FALSE)
    IN  CountDataset(res.land_plots, inv.dataset_name)

\* C7: a first run of a clean dataset without the converter tool, unless
\* the reader libraries or the store fail it, completes through the
\* fallback reader with the row count of the bridge path
C7_FallbackMatchesBridge ==
    \A s \in Slots :
        LET p == proc[s]
            inv == Catalogue[p.inv]
            others == {r \in land_plots : r.dataset_name # inv.dataset_name}
        IN  (/\ Ended(p) /\ ~p.gdal /\ p.t = 1 /\ CleanDataset(inv)
             /\ p.raised \notin {"import_failed", "fallback_error", "upsert",
                                 "ledger"})
                => /\ p.pc = "done" /\ p.strategy = "fallback"
                   /\ CountDataset(land_plots, inv.dataset_name)
                        = BridgePathCount(p.importer, inv, p.t, others)

\* the checks of type, validity and repair reject the feature
Rejected(feature) ==
    LET g == feature.geometry
    IN  \/ ~Parsable(g)
        \/ GeomType(g) \notin {"Polygon", "MultiPolygon"}
        \/ ~IsValid(g) /\ ~IsValid(Buffer0(g))

\* a feature that passes the checks and whose INSERT the store accepts
Stageable(feature) ==
    /\ ~Rejected(feature)
    /\ \A a \in DOMAIN feature.properties : ~HasQuote(feature.properties[a].v)

\* C8: with the reader libraries in place and the dataset readable, the
\* fallback reader of enhanced_seed and of seed_import reports success
\* whenever some feature of the dataset can be staged
C8_BadFeatureIsSkipped ==
    \A s \in Slots :
        LET p == proc[s]
            inv == Catalogue[p.inv]
        IN  (/\ p.importer \in {"enhanced_seed", "seed_import"}
             /\ p.fallback # "none" /\ p.libs /\ Openable(inv)
             /\ \E k \in DOMAIN inv.features : Stageable(inv.features[k]))
                => p.fallback = "ok"

\* C9: the ledger record a completed run wrote carries the number of source
\* features of the dataset
C9_LedgerCountsSourceFeatures ==
    \A s \in Slots :
        LET p == proc[s]
            inv == Catalogue[p.inv]
        IN  p.pc = "done" =>
              \A r \in shapefile_imports :
                 (r.dataset_name = inv.dataset_name /\ r.imported_at = p.t)
                     => r.feature_count = Len(inv.features)

\* C10: when the fallback reader of enhanced_seed has reported success, the
\* staging table holds one row per feature the checks did not reject, in
\* source order, each with its source index and properties, and the two
\* counters add up to the number of source features
C10_StagingHoldsAcceptedFeatures ==
    \A s \in Slots :
        LET p == proc[s]
            features == Catalogue[p.inv].features
            rows == staging[Table(p)].rows
            N == Len(features)
            K == Cardinality({i \in 1 .. N : Rejected(features[i])})
        IN  (p.importer = "enhanced_seed" /\ p.pc = "upsert"
             /\ p.strategy = "fallback")
                => /\ Len(rows) = N - K
                   /\ p.imported_count = N - K /\ p.error_count = K
                   /\ p.imported_count + p.error_count = N
                   /\ {rows[k].original_fid + 1 : k \in DOMAIN rows}
                        = {i \in 1 .. N : ~Rejected(features[i])}
                   /\ \A k \in DOMAIN rows :
                        /\ rows[k].attributes
                             = features[rows[k].original_fid + 1].properties
                        /\ \A j \in DOMAIN rows :
                             j < k => rows[j].original_fid < rows[k].original_fid

\* a load that rejected a feature ahead of one it staged, over two batches
C10_Witness ==
    \E s \in Slots :
        /\ proc[s].importer = "enhanced_seed" /\ proc[s].pc = "upsert"
        /\ proc[s].strategy = "fallback"
        /\ proc[s].error_count > 0
        /\ Len(staging[Table(proc[s])].rows) >= 2

----------------------------------------------------------------------------
(* Component validation                                                    *)

Mandatory == {"shp", "shx", "dbf"}

MissingMandatory(inv) == {c \in Mandatory : ~Exists(inv.components[c])}

\* C11: a run of enhanced_seed on a dataset with a mandatory component
\* missing ends in its first step with the validation error, whose list is
\* exactly the missing mandatory components, and that step leaves the staging
\* tables, land_plots and shapefile_imports as they were
C11_MissingMandatoryAborts ==
    [][\A s \in Slots :
          LET p == proc[s]
              q == proc'[s]
          IN  /\ (/\ p.importer = "enhanced_seed" /\ p.pc = "start"
                  /\ MissingMandatory(Catalogue[p.inv]) # {}
                  /\ q # p)
                    => /\ q.pc = "failed" /\ q.raised = "validation"
                       /\ Range(q.detail) = MissingMandatory(Catalogue[p.inv])
                       /\ Len(q.detail)
                            = Cardinality(MissingMandatory(Catalogue[p.inv]))
                       /\ staging' = staging
                       /\ land_plots' = land_plots
                       /\ shapefile_imports' = shapefile_imports
              /\ (/\ q.importer = "enhanced_seed"
                  /\ MissingMandatory(Catalogue[q.inv]) # {})
                    => q.pc \in {"start", "failed"}
      ]_vars

\* a second run stopped at validation over what the first run left
C11_Witness ==
    \E s \in Slots :
        /\ proc[s].importer = "enhanced_seed"
        /\ proc[s].pc = "failed" /\ proc[s].raised = "validation"
        /\ proc[s].detail = <<"shx", "dbf">>
        /\ \E r \in land_plots : r.created_at = 1
        /\ shapefile_imports # {}

\* C12: a run of enhanced_seed whose three mandatory components exist and
\* can be read does not end with the validation error, whatever the state
\* of the projection and code-page files
C12_OptionalNeverFailsValidation ==
    \A s \in Slots :
        (/\ proc[s].importer = "enhanced_seed"
         /\ \A c \in Mandatory :
               /\ Exists(Catalogue[proc[s].inv].components[c])
               /\ Readable(Catalogue[proc[s].inv].components[c]))
            => proc[s].raised # "validation"

\* C13: in enhanced_seed and seed_data, a run on a dataset with a mandatory
\* component that is empty or cannot be read stops at validation, before
\* the bridge and the fallback reader
C13_EmptyMandatoryFailsValidation ==
    \A s \in Slots :
        (/\ proc[s].importer \in {"enhanced_seed", "seed_data"}
         /\ proc[s].pc # "start"
         /\ \E c \in Mandatory :
               Catalogue[proc[s].inv].components[c] \in {"empty", "unreadable"})
            => /\ proc[s].pc = "failed" /\ proc[s].raised = "validation"
               /\ proc[s].bridge = "none" /\ proc[s].fallback = "none"

----------------------------------------------------------------------------
(* Plot codes                                                              *)

\* the candidate fields, in the order the statements name them
CandidateOrder == <<"plot_code", "plotcode", "code", "plot_no", "plotnum">>

\* the text of the field a candidate name matches without regard to case
CandidateText(fields, c) ==
    IF \E f \in DOMAIN fields : Lower(f) = c
    THEN TextOf(fields[CHOOSE f \in DOMAIN fields : Lower(f) = c])
    ELSE NULL

\* the first candidate, in candidate order, with a non-empty value
ResolvedCode(fields) ==
    LET hits == SelectSeq(CandidateOrder,
                          LAMBDA c : CandidateText(fields, c) \notin {NULL, ""})
    IN  IF hits = <<>> THEN NULL ELSE CandidateText(fields, hits[1])

\* C14: the plot code the upsert of enhanced_seed gives a staged row, in
\* either staging shape, is the value of the first candidate field with a
\* non-empty value, whenever the row has one
C14_FirstNonEmptyCandidateWins ==
    \A s \in Slots :
        LET p == proc[s]
            table == staging[Table(p)]
            kept == SelectSeq(table.rows, PassesFilter)
            cands == UpsertCandidates(p.importer, table, Catalogue[p.inv],
                                      p.t, land_plots)
        IN  (p.importer = "enhanced_seed" /\ p.pc = "upsert")
                => \A k \in DOMAIN cands :
                      ResolvedCode(kept[k].attributes) # NULL
                          => cands[k].row.plot_code
                               = ResolvedCode(kept[k].attributes)

\* no field of the staged rows is a plot-code candidate
NoCodeField(table) ==
    \A k \in DOMAIN table.rows :
        \A f \in DOMAIN table.rows[k].attributes :
            Lower(f) \notin Range(CandidateOrder) \cup {"plot_id", "plotid"}

\* C15: when the staged rows have no plot-code field, the k-th staged row
\* that the upsert takes is offered to land_plots under the code
\* <dataset_name>_<k padded to four digits>
C15_SynthesizedCodeFollowsStagingOrder ==
    \A s \in Slots :
        LET p == proc[s]
            inv == Catalogue[p.inv]
            table == staging[Table(p)]
            cands == UpsertCandidates(p.importer, table, inv, p.t, {})
        IN  (p.pc = "upsert" /\ NoCodeField(table))
                => \A k \in DOMAIN table.rows :
                      PassesFilter(table.rows[k])
                          => \E j \in DOMAIN cands :
                                /\ cands[j].row.plot_code
                                     = SynthPlotCode(inv.dataset_name \o "_", k)
                                /\ cands[j].row.geometry.g
                                     = table.rows[k].geometry.g

----------------------------------------------------------------------------
(* The upsert filter and the rows it writes                                *)

\* C16: when the store does not fail on its own, the upsert of enhanced_seed
\* and of seed_data over a loaded staging table does not fail, and land_plots
\* then has a row for the plot code of every staged row that passes the
\* filter
C16_PassingRowsAreUpserted ==
    \A s \in Slots :
        LET p == proc[s]
            inv == Catalogue[p.inv]
            table == staging[Table(p)]
            cands == UpsertCandidates(p.importer, table, inv, p.t, land_plots)
            res == process_imported_data(p.importer, table, inv, p.t,
                                         land_plots, FALSE)
        IN  (/\ p.importer \in {"enhanced_seed", "seed_data"}
             /\ p.pc = "upsert" /\ table.exists /\ Len(table.rows) > 0)
                => /\ res.raised # "upsert"
                   /\ \A k \in DOMAIN cands :
                         \E r \in res.land_plots :
                            r.plot_code = cands[k].row.plot_code

\* C17: every row of land_plots has area_hectares > 0
C17_AreaIsPositive ==
    \A r \in land_plots : r.area_hectares > 0

\* an imported row whose area came from a source field, next to one whose
\* area was computed from the geometry
C17_Witness ==
    /\ \E r \in land_plots :
          /\ r.created_at > 0 /\ "AREA" \in DOMAIN r.attributes
          /\ r.area_hectares # ComputedAreaHectares(r.geometry.g)
    /\ \E r \in land_plots :
          /\ r.created_at > 0 /\ "OWNER" \in DOMAIN r.attributes
          /\ r.area_hectares = ComputedAreaHectares(r.geometry.g)

\* C18: a row that a step adds to land_plots has status 'available'; and a
\* run of enhanced_seed or seed_data on the one-feature dataset with
\* PLOT_CODE 'A1' and area 2.5, started on an empty store, leaves exactly one
\* row: plot_code 'A1', area_hectares 2.5000, status 'available'
C18_NewRowsAreAvailable ==
    [][/\ \A r \in land_plots' :
             r.id \notin Ids(land_plots) => r.status = "available"
       /\ \A s \in Slots :
             LET q == proc'[s]
             IN  (/\ q.importer \in {"enhanced_seed", "seed_data"}
                  /\ q.pc \in {"ledger", "done"} /\ q.rows_before = 0
                  /\ Catalogue[q.inv].dataset_name = "single")
                    => /\ Cardinality(land_plots') = 1
                       /\ \A r \in land_plots' :
                             /\ r.plot_code = "A1"
                             /\ r.area_hectares = 25000
                             /\ r.status = "available"
                             /\ r.dataset_name = "single"
      ]_vars

\* the one-feature dataset imported, next to a row whose source says taken
C18_Witness ==
    /\ \E r \in land_plots :
          /\ r.dataset_name = "single" /\ r.plot_code = "A1"
          /\ r.area_hectares = 25000 /\ r.status = "available"
    /\ \E r \in land_plots :
          /\ r.dataset_name = "blocks" /\ r.status = "available"
          /\ \E f \in DOMAIN r.attributes :
                Lower(f) = "status" /\ r.attributes[f].v = "taken"

\* results of a repair that are not multi-polygons
BarePolygonRepairs ==
    {Buffer0(g) : g \in {x \in GeomIds : /\ ~IsValid(x)
                                         /\ IsValid(Buffer0(x))
                                         /\ GeomType(Buffer0(x)) # "MultiPolygon"}}

\* a MultiPolygon of SRID 4326 made of a polygonal source geometry
IsMultiPolygon4326(geom) ==
    /\ geom.type = "MultiPolygon" /\ geom.srid = 4326
    /\ GeomType(geom.g) \in {"Polygon", "MultiPolygon"}
    /\ geom.g \notin BarePolygonRepairs

\* C19: the geometry of every row of land_plots, and of every staged row
\* that has one, is a MultiPolygon of SRID 4326 that comes from a polygon or
\* a multi-polygon, and never from a repair that returned another type
C19_GeometryIsMultiPolygon4326 ==
    /\ \A r \in land_plots : IsMultiPolygon4326(r.geometry)
    /\ \A n \in TableNames :
          \A k \in DOMAIN staging[n].rows :
             staging[n].rows[k].geometry.g # NULL
                 => IsMultiPolygon4326(staging[n].rows[k].geometry)

\* promoted bare polygons are stored, and the reader of enhanced_seed has
\* failed on a repair that came back as a bare polygon
C19_Witness ==
    /\ \E r \in land_plots :
          r.created_at > 0 /\ GeomType(r.geometry.g) = "Polygon"
    /\ \E s \in Slots :
          /\ proc[s].importer = "enhanced_seed"
          /\ Catalogue[proc[s].inv].dataset_name = "knots"
          /\ proc[s].fallback = "failed" /\ proc[s].libs

\* C20: after the upsert of enhanced_seed, the attributes of every row the
\* run wrote hold string values only, none of them empty, and have the keys
\* import_method, import_timestamp and original_fid
C20_AttributesAreCleanStrings ==
    \A s \in Slots :
        (proc[s].importer = "enhanced_seed" /\ proc[s].pc \in {"ledger", "done"})
            => \A r \in land_plots :
                  r.updated_at = proc[s].t
                      => /\ \A f \in DOMAIN r.attributes :
                               /\ r.attributes[f].t = "string"
                               /\ r.attributes[f].v # ""
                         /\ {"import_method", "import_timestamp",
                             "original_fid"} \subseteq DOMAIN r.attributes

----------------------------------------------------------------------------
(* The ledger, the end of a run, and the order handlers                    *)

\* the ledger record a run that is over would have written
LatestRecordOf(p) ==
    LET inv == Catalogue[p.inv]
    IN  IF p.importer = "seed_import"
        THEN SeedImportData(inv, land_plots, p.gdal)
        ELSE EnhancedImportData(inv, MetadataOf(inv, p.metadata),
                                p.inserted_count)

\* C21: shapefile_imports holds at most one record per dataset_name, and
\* when a run has ended with success the record of its dataset, if there is
\* one, holds the projection, encoding, schema, hashes, feature count and
\* envelope of that run and the time of that run
C21_LedgerHoldsLatestRun ==
    /\ \A r1, r2 \in shapefile_imports :
          r1.dataset_name = r2.dataset_name => r1 = r2
    /\ \A s \in Slots :
          proc[s].pc = "done"
              => \A r \in shapefile_imports :
                    r.dataset_name = Catalogue[proc[s].inv].dataset_name
                        => /\ r.imported_at = proc[s].t
                           /\ LET d == LatestRecordOf(proc[s])
                              IN  /\ r.prj = d.prj /\ r.cpg = d.cpg
                                  /\ r.dbf_schema = d.dbf_schema
                                  /\ r.file_hashes = d.file_hashes
                                  /\ r.feature_count = d.feature_count
                                  /\ r.bbox = d.bbox

\* C22: a run of enhanced_seed whose ledger write failed has not failed for
\* it, holds the row count it returned, and its session can still read the
\* store
C22_LedgerFailureIsNotFatal ==
    \A s \in Slots :
        (proc[s].importer = "enhanced_seed" /\ proc[s].ledger = "failed")
            => /\ proc[s].session = "ok"
               /\ proc[s].pc # "failed"
               /\ proc[s].inserted_count > 0

\* C23: the value process_imported_data returns to a run of enhanced_seed or
\* seed_data is the number of rows of land_plots the upsert of that run
\* inserted or updated
C23_ReturnsRowsWritten ==
    [][\A s \in Slots :
          (/\ proc[s].pc = "upsert" /\ proc'[s].pc = "ledger"
           /\ proc[s].importer \in {"enhanced_seed", "seed_data"})
              => proc'[s].inserted_count =
                     Cardinality({r \in land_plots' : r \notin land_plots})
      ]_vars

\* the stages of a run ahead of the upsert
BeforeUpsert == {"start", "inspect", "bridge", "fallback"}

\* C24: shapefile_imports changes only in the ledger stage of a run whose
\* upsert has committed; no step of a run ahead of its upsert, and no upsert
\* that finds no staging table or an empty one, changes land_plots or
\* shapefile_imports
C24_LedgerFollowsCommittedUpsert ==
    [][/\ shapefile_imports' # shapefile_imports
            => \E s \in Slots : /\ proc[s].pc = "ledger"
                                /\ proc[s].committed
                                /\ proc'[s].ledger = "written"
       /\ \A s \in Slots :
             (proc[s].pc \in BeforeUpsert /\ proc'[s] # proc[s])
                 => /\ land_plots' = land_plots
                    /\ shapefile_imports' = shapefile_imports
       /\ \A s \in Slots :
             (proc[s].pc = "upsert" /\ proc'[s].raised \in {"no_table", "no_data"})
                 => /\ land_plots' = land_plots
                    /\ shapefile_imports' = shapefile_imports
      ]_vars

\* a run has failed with both strategies exhausted, next to the rows and
\* the ledger record an earlier run committed
C24_Witness ==
    /\ shapefile_imports # {}
    /\ \E r \in land_plots : r.created_at > 0
    /\ \E s \in Slots : /\ proc[s].pc = "failed"
                        /\ proc[s].raised = "import_failed"
                        /\ ~proc[s].committed

\* C25: when a run has ended, the staging table it used does not exist
C25_StagingDroppedAtEnd ==
    \A s \in Slots :
        Ended(proc[s]) => ~staging[Table(proc[s])].exists

\* the features the fallback reader of enhanced_seed accepts that lie
\* outside the national bounds once reprojected, by index
OutsideAccepted(inv) ==
    {k \in DOMAIN inv.features :
        LET g == transform(Transformer(inv.crs), inv.features[k].geometry)
        IN  /\ Parsable(g)
            /\ GeomType(g) \in {"Polygon", "MultiPolygon"}
            /\ IsValid(g)
            /\ ~WithinTanzaniaBounds(g)}

\* C26: the fallback reader of enhanced_seed stages every feature outside
\* the national bounds that it would stage inside them, and after the upsert
\* of the run a feature that passes the filter is a row of land_plots
C26_OutsideBoundsIsKept ==
    \A s \in Slots :
        LET p == proc[s]
            inv == Catalogue[p.inv]
            g(k) == transform(Transformer(inv.crs), inv.features[k].geometry)
        IN  (p.importer = "enhanced_seed" /\ p.strategy = "fallback")
                => /\ p.pc = "upsert"
                      => \A k \in OutsideAccepted(inv) :
                            \E i \in DOMAIN staging[Table(p)].rows :
                               /\ staging[Table(p)].rows[i].original_fid = k - 1
                               /\ staging[Table(p)].rows[i].geometry.g = g(k)
                   /\ p.pc \in {"ledger", "verify", "done"}
                      => \A k \in OutsideAccepted(inv) :
                            PlanarAreaPositive(g(k))
                                => \E r \in land_plots :
                                      /\ r.geometry.g = g(k)
                                      /\ r.dataset_name = inv.dataset_name

\* a run of enhanced_seed has read survey1 with the fallback reader and has
\* stored the plot that reaches across the border
C26_Witness ==
    /\ \E s \in Slots : /\ proc[s].importer = "enhanced_seed"
                        /\ proc[s].strategy = "fallback"
                        /\ proc[s].pc = "done"
                        /\ OutsideAccepted(Catalogue[proc[s].inv]) # {}
    /\ \E r \in land_plots : /\ r.geometry.g = "gfar"
                             /\ r.dataset_name = "survey1"

\* C27: no run ends because of the metadata inspector
C27_InspectorFailureIsSoft ==
    \A s \in Slots : proc[s].raised \notin {"no_features", "inspector"}

\* C28: every geometry of a staging table is in WGS84 coordinates
C28_StagedGeometryIsWGS84 ==
    \A n \in TableNames :
        \A k \in DOMAIN staging[n].rows :
            staging[n].rows[k].geometry.g # NULL
                => CoordsOf(staging[n].rows[k].geometry.g) = WGS84

\* C30: for every plot the handler accepts an order for, the store a later
\* session reads holds a new pending order for the plot, and the plot is
\* pending
C30_CreatedOrderIsFound ==
    \A plot_id \in PlotIds :
        LET r == create_plot_order(land_plots, plot_orders, plot_id)
        IN  r.code = 200
                => /\ \E o \in r.db.plot_orders :
                         /\ o.plot_id = plot_id /\ o.status = "pending"
                         /\ o.id \notin Ids(plot_orders)
                   /\ \A q \in r.db.land_plots :
                         q.id = plot_id => q.status = "pending"

----------------------------------------------------------------------------
(* Two runs at a time                                                      *)

\* two operators start one run each on the same host
Workers == {1, 2}

\* the datasets they import: survey1 and single
OverlapInvocations == {1, 9}

InitOverlap ==
    /\ land_plots = {}
    /\ plot_orders = {}
    /\ shapefile_imports = {}
    /\ staging = [n \in TableNames |-> NoTable]
    /\ now = 0
    /\ proc = [s \in Workers |-> IdleProc]
    /\ prev_run = NoRun

StartOverlapRun(s, importer, i, gdal) ==
    /\ proc[s].pc = "idle"
    /\ \A o \in Workers : proc[o].pc # "idle" => gdal = proc[o].gdal
    /\ StartRun(s, importer, i, gdal)

RunOverlap(s) ==
    \/ \E importer \in Importers, i \in OverlapInvocations, gdal \in BOOLEAN :
           StartOverlapRun(s, importer, i, gdal)
    \/ Validate(s)
    \/ \E info \in InspectorOutcomes : Inspect(s, info)
    \/ \E outcome \in BridgeOutcomes : Bridge(s, outcome)
    \/ BridgeUnavailable(s)
    \/ \E libs \in BOOLEAN : Fallback(s, libs)
    \/ \E dberr \in BOOLEAN : Upsert(s, dberr)
    \/ \E failed \in BOOLEAN : Ledger(s, failed)
    \/ Verify(s)
    \/ Cleanup(s)

NextOverlap == \E s \in Workers : RunOverlap(s)

SpecOverlap == InitOverlap /\ [][NextOverlap]_vars

\* the geometries of the datasets of a name, as read and as reprojected
GeomsOf(name) ==
    LET of(i) == {Catalogue[i].features[k].geometry :
                     k \in DOMAIN Catalogue[i].features}
        named == {j \in Invocations : Catalogue[j].dataset_name = name}
    IN  UNION {of(i) \cup {ToWGS84(g) : g \in of(i)} : i \in named}

\* a row stored under the name of one dataset with a geometry of another
Foreign(r) == r.created_at > 0 /\ r.geometry.g \notin GeomsOf(r.dataset_name)

\* C29: a row is stored under the name of one dataset with the geometry of
\* another only when both runs are of the same importer with a fixed staging
\* table name; runs of enhanced_seed, whose table names differ, and runs of
\* different importers never mix their staged rows
C29_FixedNameRunsInterfere ==
    (\E r \in land_plots : Foreign(r))
        => /\ proc[1].importer = proc[2].importer
           /\ proc[1].importer \in {"seed_data", "seed_import"}
           /\ Table(proc[1]) = Table(proc[2])

\* one run has upserted, under the name of its dataset, rows the other run
\* staged in the table they share
C29_Witness ==
    /\ \E r \in land_plots : Foreign(r)
    /\ proc[1].importer = proc[2].importer
    /\ proc[1].inv # proc[2].inv
    /\ \E s \in Workers : proc[s].committed

----------------------------------------------------------------------------
(* A run that is killed                                                    *)

\* the datasets of the runs that are killed: survey1, parcels and single
CrashInvocations == {1, 2, 9}

\* where in a stage the process dies: before the stage has committed
\* anything, or between its first commit and its last statement
CrashPoints == {"before", "between"}

\* a store that keeps nothing of a stage that did not run to its end
CommittedAtCrashNothing(before, written, point) == before

\* what the store holds of a stage when the client dies: the transaction
\* that is open is rolled back, the one that was committed stays
CommittedAtCrash(before, written, point) ==
    IF point = "between" THEN written ELSE before

\* the stages in which a commit is followed by more statements: the
\* converter has filled the table the importer then counts; the fallback
\* reader commits CREATE TABLE ahead of the inserts; process_imported_data
\* commits the INSERT ahead of the statistics and the DROP TABLE
HasBetween(p, inv, table, lp) ==
    CASE p.pc = "bridge"   -> p.gdal /\ BridgeFeasible(inv, "ok")
      [] p.pc = "fallback" -> TRUE
      [] p.pc = "upsert"   ->
             /\ p.importer # "seed_import"
             /\ process_imported_data(p.importer, table, inv, p.t, lp,
                                      FALSE).raised = "none"
      [] OTHER             -> FALSE

\* the process of the run dies at a stage
Crash(s, point) ==
    LET p == proc[s]
        inv == Catalogue[p.inv]
        table == staging[Table(p)]
        created == [exists |-> TRUE,
                    columns |-> CASE p.importer = "enhanced_seed" -> FallbackColumns
                                  [] p.importer = "seed_data" -> SeedDataColumns
                                  [] OTHER -> SeedImportColumns,
                    rows |-> <<>>]
        staged == CASE p.pc = "bridge"   -> BridgeTable(inv, "ok")
                    [] p.pc = "fallback" -> created
                    [] OTHER             -> table
        written == IF p.pc = "upsert" /\ p.importer # "seed_import"
                   THEN process_imported_data(p.importer, table, inv, p.t,
                                              land_plots, FALSE).land_plots
                   ELSE land_plots
    IN  /\ p.pc \in {"start", "inspect", "bridge", "fallback", "upsert",
                     "ledger", "verify", "cleanup"}
        /\ point = "between" => HasBetween(p, inv, table, land_plots)
        /\ land_plots' = CommittedAtCrash(land_plots, written, point)
        /\ staging' = [staging EXCEPT ![Table(p)] =
                          CommittedAtCrash(table, staged, point)]
        /\ proc' = [proc EXCEPT ![s].pc = "failed",
                                ![s].raised = "crash",
                                ![s].detail = <<p.pc, point>>]
        /\ UNCHANGED <<shapefile_imports, plot_orders, now, prev_run>>

RunCrash(s) ==
    \/ \E importer \in Importers, i \in CrashInvocations, gdal \in BOOLEAN :
           StartRun(s, importer, i, gdal)
    \/ Validate(s)
    \/ \E info \in InspectorOutcomes : Inspect(s, info)
    \/ \E outcome \in BridgeOutcomes : Bridge(s, outcome)
    \/ BridgeUnavailable(s)
    \/ \E libs \in BOOLEAN : Fallback(s, libs)
    \/ \E dberr \in BOOLEAN : Upsert(s, dberr)
    \/ \E failed \in BOOLEAN : Ledger(s, failed)
    \/ Verify(s)
    \/ Cleanup(s)
    \/ \E point \in CrashPoints : Crash(s, point)

NextCrash == \E s \in Slots : RunCrash(s)

SpecCrash == Init /\ [][NextCrash]_vars

Crashed(p) == p.pc = "failed" /\ p.raised = "crash"

\* the run got past the commit of its INSERT into land_plots
UpsertCommitted(p) ==
    \/ p.detail[1] \in {"ledger", "verify", "cleanup"}
    \/ p.detail = <<"upsert", "between">>

\* the run got past the load of its staging table and not past the upsert
StagingCommitted(p) == p.detail = <<"upsert", "before">>

\* C31: the stages commit one by one, so that a run killed at any point
\* keeps what its earlier stages wrote: killed in the upsert, the staged
\* rows are in the store and land_plots is as the run found it; killed
\* after the commit of the upsert and before the ledger write, the rows of
\* the dataset are in land_plots and no ledger record was written by the run
C31_CommittedStagesSurviveCrash ==
    \A s \in Slots :
        LET p == proc[s]
            inv == Catalogue[p.inv]
        IN  Crashed(p) =>
              /\ StagingCommitted(p) =>
                    /\ staging[Table(p)].exists
                    /\ p.importer = "enhanced_seed" =>
                           Len(staging[Table(p)].rows) > 0
                    /\ Cardinality(land_plots) = p.rows_before
              /\ (UpsertCommitted(p) /\ p.importer # "seed_import") =>
                    CountDataset(land_plots, inv.dataset_name) > 0
              /\ (UpsertCommitted(p) /\ p.detail[1] \in {"upsert", "ledger"}) =>
                    \A rec \in shapefile_imports : rec.imported_at # p.t
              /\ p.detail[1] \in {"start", "inspect", "bridge", "fallback"} =>
                    Cardinality(land_plots) = p.rows_before

\* enhanced_seed was killed between the commit of its upsert and the ledger
\* write: the rows it added are stored, the ledger has no record of the run
C31_Witness ==
    \E s \in Slots :
        /\ Crashed(proc[s])
        /\ proc[s].importer = "enhanced_seed"
        /\ proc[s].detail[1] = "ledger"
        /\ proc[s].committed
        /\ Cardinality(land_plots) > proc[s].rows_before
        /\ \A rec \in shapefile_imports : rec.imported_at # proc[s].t

----------------------------------------------------------------------------
(* One dataset through both strategies                                     *)

\* the run and the run before it imported the same dataset with the same
\* importer, one through the bridge and one through the fallback reader
OtherStrategyBefore(p) ==
    /\ p.pc = "done" /\ prev_run.pc = "done"
    /\ prev_run.importer = p.importer /\ prev_run.inv = p.inv
    /\ {prev_run.strategy, p.strategy} = {"bridge", "fallback"}

\* C32: the bridge path and the fallback path resolve the same plot code
\* for every feature of a clean dataset, so a run of enhanced_seed or
\* seed_data that imports through one strategy the dataset the run before
\* it imported through the other adds no row to land_plots
C32_StrategiesResolveAlike ==
    \A s \in Slots :
        LET p == proc[s]
        IN  (/\ OtherStrategyBefore(p)
             /\ p.importer \in {"enhanced_seed", "seed_data"}
             /\ CleanDataset(Catalogue[p.inv]))
                => Cardinality(land_plots) = p.rows_before

----------------------------------------------------------------------------
(* Two features with one plot code                                         *)

\* the plot codes that more than one row of the SELECT resolves to
RepeatedCodes(cands) ==
    {cands[i].row.plot_code : i \in {i \in DOMAIN cands :
        \E j \in DOMAIN cands : j # i /\ cands[j].row.plot_code
                                          = cands[i].row.plot_code}}

\* C33: when the staged rows of a run hold two features that resolve to
\* one plot code, the upsert of the run, unless the store fails it for a
\* reason of its own, returns without raising and leaves exactly one
\* land_plots row with that code, whatever the conflict policy
C33_RepeatedCodeYieldsOneRow ==
    \A s \in Slots :
        LET p == proc[s]
            inv == Catalogue[p.inv]
            table == staging[Table(p)]
            cands == UpsertCandidates(p.importer, table, inv, p.t, land_plots)
            res == IF p.importer = "seed_import"
                   THEN normalize_into_land_plots(table, inv, p.t, land_plots,
                                                  FALSE)
                   ELSE process_imported_data(p.importer, table, inv, p.t,
                                              land_plots, FALSE)
        IN  (p.pc = "upsert" /\ table.exists /\ RepeatedCodes(cands) # {})
                => /\ res.raised = "none"
                   /\ \A code \in RepeatedCodes(cands) :
                         Cardinality({r \in res.land_plots :
                                         r.plot_code = code}) = 1

----------------------------------------------------------------------------
(* Sequence numbers of the synthesized plot codes                          *)

\* row numbers of a staging table of some ten thousand rows, around the
\* points where the number takes one more digit
RowNumbers == {1, 2, 9, 10, 11, 99, 100, 999, 1000, 1001, 9999, 10000, 10001,
               10010}

\* rows of one SELECT that are looked at together
MaxSampled == 2

\* the code the SELECT of the importer synthesizes for ROW_NUMBER() = k
SynthCodeOf(importer, inv, k) ==
    IF importer = "seed_import" THEN SynthPlotCode("MBY-", k)
    ELSE SynthPlotCode(inv.dataset_name \o "_", k)

\* the SELECT of an importer over the staging table of a dataset without
\* plot-code field
InitNumbering ==
    /\ land_plots = {}
    /\ plot_orders = {}
    /\ shapefile_imports = {}
    /\ staging = [n \in TableNames |-> NoTable]
    /\ now = 1
    /\ \E importer \in Importers, i \in {1, 4} :
           proc = [s \in Slots |->
                     [IdleProc EXCEPT !.pc = "upsert", !.importer = importer,
                                      !.inv = i, !.t = 1]]
    /\ prev_run = NoRun

\* the SELECT list evaluated for the row that ROW_NUMBER() numbers k
NumberRow(s, k) ==
    LET p == proc[s]
    IN  /\ p.pc = "upsert"
        /\ Len(p.detail) < MaxSampled
        /\ \A n \in DOMAIN p.detail : p.detail[n].row_number # k
        /\ proc' = [proc EXCEPT ![s].detail =
                       Append(@, [row_number |-> k,
                                  plot_code |-> SynthCodeOf(p.importer,
                                                   Catalogue[p.inv], k)])]
        /\ UNCHANGED <<land_plots, shapefile_imports, plot_orders, staging,
                       now, prev_run>>

NextNumbering == \E s \in Slots, k \in RowNumbers : NumberRow(s, k)

SpecNumbering == InitNumbering /\ [][NextNumbering]_vars

\* C34: two rows of one SELECT with different row numbers get different
\* synthesized plot codes, also when a number has more than four digits
C34_SynthesizedCodesDistinct ==
    \A s \in Slots :
        \A a, b \in DOMAIN proc[s].detail :
            proc[s].detail[a].row_number # proc[s].detail[b].row_number
                => proc[s].detail[a].plot_code # proc[s].detail[b].plot_code

----------------------------------------------------------------------------
(* The order services on one session                                       *)
(*                                                                         *)
(* A caller holds one session and calls OrderService on it, as             *)
(* test_order_creation.py does; in this specification land_plots and       *)
(* plot_orders are the two tables as that session sees them.               *)

\* orders one session makes
MaxOrders == 3

\* two imported plots nobody has ordered, and the plots ordered before
SessionStores ==
    {[land_plots |-> {LegacyPlot(1, "A1", "available"),
                      LegacyPlot(2, "A2", "available")},
      plot_orders |-> {}],
     LegacyStore}

InitSession ==
    /\ \E store \in SessionStores : /\ land_plots = store.land_plots
                                    /\ plot_orders = store.plot_orders
    /\ shapefile_imports = {}
    /\ staging = [n \in TableNames |-> NoTable]
    /\ now = 0
    /\ proc = [s \in Slots |-> IdleProc]
    /\ prev_run = NoRun

\* order_service.create_order(db, plot_id, order_data); the flush of an
\* order for a plot that is not there raises
CreateOrder(plot_id) ==
    LET r == create_order(land_plots, plot_orders, plot_id)
    IN  /\ Cardinality(plot_orders) < MaxOrders
        /\ get_plot_by_id(land_plots, plot_id) # {}
        /\ land_plots' = r.land_plots
        /\ plot_orders' = r.plot_orders
        /\ UNCHANGED <<shapefile_imports, staging, now, proc, prev_run>>

\* order_service.update_order_status(db, order_id, new_status)
UpdateStatus(order_id, new_status) ==
    LET r == update_status(land_plots, plot_orders, order_id, new_status)
    IN  /\ \E o \in plot_orders : o.id = order_id
        /\ land_plots' = r.land_plots
        /\ plot_orders' = r.plot_orders
        /\ UNCHANGED <<shapefile_imports, staging, now, proc, prev_run>>

NextSession ==
    \/ \E plot_id \in PlotIds : CreateOrder(plot_id)
    \/ \E order_id \in OrderIds, new_status \in NewStatuses :
           UpdateStatus(order_id, new_status)

SpecSession == InitSession /\ [][NextSession]_vars

\* C35: after any sequence of create_order and update_order_status calls,
\* a plot with an approved order has status 'taken'
C35_ApprovedPlotIsTaken ==
    \A o \in plot_orders :
        o.status = "approved"
            => \A r \in land_plots : r.id = o.plot_id => r.status = "taken"

\* no plot that is available has a pending order
NoPendingOnAvailable(lp, orders) ==
    \A r \in lp :
        r.status = "available"
            => ~\E o \in orders : o.plot_id = r.id /\ o.status = "pending"

\* what the two handlers do to the session: an order is created only for a
\* plot the handler found available
HandlerStep ==
    \A o \in plot_orders' :
        o.id \notin Ids(plot_orders)
            => \E r \in land_plots : r.id = o.plot_id /\ r.status = "available"

\* C36: no order operation of the API takes a session in which no
\* available plot has a pending order to one in which an available plot
\* has a pending order
C36_AvailablePlotHasNoPendingOrder ==
    [][(NoPendingOnAvailable(land_plots, plot_orders) /\ HandlerStep)
          => NoPendingOnAvailable(land_plots', plot_orders')]_vars

----------------------------------------------------------------------------
(* Two order requests at a time                                            *)
(*                                                                         *)
(* Each request has a session of its own (get_db).  A session reads the    *)
(* committed tables and what it has flushed itself; nothing it flushed is  *)
(* seen by the other, and nothing is committed when it is closed.  The     *)
(* steps of the two handlers interleave freely, as they do between two     *)
(* server processes; one process runs them one handler after the other,    *)
(* which is among the interleavings.                                       *)

\* a request that has not arrived
NoRequest == [pc |-> "idle", plot_id |-> 0, code |-> 0, orders |-> {}]

\* an available plot, a plot with a pending order, a plot that is taken
RaceStore ==
    [land_plots |-> {LegacyPlot(1, "A1", "available"),
                     LegacyPlot(2, "A2", "pending"),
                     LegacyPlot(3, "A3", "taken")},
     plot_orders |-> {Order(1, 2, "pending"), Order(2, 3, "approved")}]

InitRace ==
    /\ land_plots = RaceStore.land_plots
    /\ plot_orders = RaceStore.plot_orders
    /\ shapefile_imports = {}
    /\ staging = [n \in TableNames |-> NoTable]
    /\ now = 0
    /\ proc = [w \in Workers |-> NoRequest]
    /\ prev_run = NoRun

\* POST /api/plots/{plot_id}/order arrives
RequestOrder(w, plot_id) ==
    /\ proc[w].pc = "idle"
    /\ proc' = [proc EXCEPT ![w] = [NoRequest EXCEPT !.pc = "check",
                                                     !.plot_id = plot_id]]
    /\ UNCHANGED <<land_plots, shapefile_imports, plot_orders, staging, now,
                   prev_run>>

\* plot = plot_service.get_plot_by_id(db, plot_id) and the two tests on it
CheckPlot(w) ==
    LET plot == get_plot_by_id(land_plots, proc[w].plot_id)
    IN  /\ proc[w].pc = "check"
        /\ proc' = [proc EXCEPT ![w] =
               IF plot = {} THEN [@ EXCEPT !.pc = "responded", !.code = 404]
               ELSE IF \E r \in plot : r.status # "available"
                    THEN [@ EXCEPT !.pc = "responded", !.code = 400]
                    ELSE [@ EXCEPT !.pc = "create"]]
        /\ UNCHANGED <<land_plots, shapefile_imports, plot_orders, staging,
                       now, prev_run>>

\* order = order_service.create_order(db, plot_id, order_data); return order.
\* The id is a uuid4 the session draws, so the ids of two sessions differ.
CreateOrderInSession(w) ==
    LET done == create_order(land_plots, plot_orders, proc[w].plot_id)
    IN  /\ proc[w].pc = "create"
        /\ proc' = [proc EXCEPT ![w] =
               [@ EXCEPT !.pc = "responded", !.code = 200,
                         !.orders = {[o EXCEPT !.id = @ + w] :
                                        o \in done.plot_orders \ plot_orders}]]
        /\ UNCHANGED <<land_plots, shapefile_imports, plot_orders, staging,
                       now, prev_run>>

\* the finally clause of get_db after the response
CloseSession(w) ==
    LET same == [land_plots |-> land_plots, plot_orders |-> plot_orders]
        mine == [land_plots |-> land_plots,
                 plot_orders |-> plot_orders \cup proc[w].orders]
    IN  /\ proc[w].pc = "responded"
        /\ land_plots' = Close(same, mine).land_plots
        /\ plot_orders' = Close(same, mine).plot_orders
        /\ proc' = [proc EXCEPT ![w].pc = "closed"]
        /\ UNCHANGED <<shapefile_imports, staging, now, prev_run>>

NextRace ==
    \E w \in Workers :
        \/ \E plot_id \in PlotIds : RequestOrder(w, plot_id)
        \/ CheckPlot(w)
        \/ CreateOrderInSession(w)
        \/ CloseSession(w)

SpecRace == InitRace /\ [][NextRace]_vars

\* C37: of two requests for the same plot at most one is answered with the
\* order it created
C37_OneRequestSucceeds ==
    \A w1, w2 \in Workers :
        (w1 # w2 /\ proc[w1].plot_id = proc[w2].plot_id)
            => ~(proc[w1].code = 200 /\ proc[w2].code = 200)

----------------------------------------------------------------------------
(* The loop of the fallback reader, feature by feature                     *)

\* features of the files read: a good one, one whose attribute holds a
\* single quote, a Point, and a multi-polygon whose repair is a bare polygon
FeatureKinds ==
    {Feature("g1", Owner("Asha")), Feature("g2", Owner("O'Brien")),
     Feature("gp", Owner("Juma")), Feature("gknot", Owner("Neema"))}

\* features in one file
MaxFeatures == 4

FeatureFiles == UNION {[1 .. n -> FeatureKinds] : n \in 0 .. MaxFeatures}

\* batch = [], imported_count = 0, error_count = 0 ahead of the loop
EmptyBatch == [batch |-> <<>>, rows |-> <<>>, imported_count |-> 0,
               error_count |-> 0, aborted |-> FALSE]

\* import_with_python_fallback after CREATE TABLE, with the file open
InitBatches ==
    /\ land_plots = {}
    /\ plot_orders = {}
    /\ shapefile_imports = {}
    /\ staging = [n \in TableNames |-> NoTable]
    /\ now = 1
    /\ \E features \in FeatureFiles :
           proc = [s \in Slots |->
                     [pc |-> "loop", features |-> features, i |-> 0,
                      acc |-> EmptyBatch, commits |-> 0, staged |-> <<>>]]
    /\ prev_run = NoRun

\* one pass of the body of for i, feature in enumerate(src)
LoopStep(s) ==
    LET p == proc[s]
    IN  /\ p.pc = "loop"
        /\ p.i < Len(p.features)
        /\ proc' = [proc EXCEPT
              ![s].acc = FallbackLoop(SubSeq(p.features, 1, p.i + 1), p.i, p.acc),
              ![s].i = p.i + 1]
        /\ UNCHANGED <<land_plots, shapefile_imports, plot_orders, staging,
                       now, prev_run>>

\* if batch: self._execute_batch_insert(batch); imported_count += len(batch);
\* an exception here reaches the outer handler, which rolls back
RemainingBatch(s) ==
    LET p == proc[s]
        last == _execute_batch_insert(p.acc.rows, p.acc.batch, p.acc.aborted)
    IN  /\ p.pc = "loop"
        /\ p.i = Len(p.features)
        /\ proc' = [proc EXCEPT ![s] =
               IF last.raised
               THEN [@ EXCEPT !.pc = "failed", !.acc.rows = <<>>]
               ELSE [@ EXCEPT !.pc = "commit", !.acc.rows = last.rows,
                              !.acc.imported_count = @ + Len(p.acc.batch)]]
        /\ UNCHANGED <<land_plots, shapefile_imports, plot_orders, staging,
                       now, prev_run>>

\* self.db.commit() after the loop
CommitStaged(s) ==
    LET p == proc[s]
    IN  /\ p.pc = "commit"
        /\ proc' = [proc EXCEPT ![s].pc = "done",
                                ![s].commits = p.commits + 1,
                                ![s].staged = p.acc.rows]
        /\ UNCHANGED <<land_plots, shapefile_imports, plot_orders, staging,
                       now, prev_run>>

NextBatches ==
    \E s \in Slots : LoopStep(s) \/ RemainingBatch(s) \/ CommitStaged(s)

SpecBatches == InitBatches /\ [][NextBatches]_vars

\* C38: the pending batch never holds more than batch_size features, and
\* a load that has committed has inserted every accepted feature exactly
\* once, in one commit
C38_BatchIsBounded ==
    \A s \in Slots :
        LET p == proc[s]
            accepted == {k \in 1 .. Len(p.features) :
                            ~PrepareFeature(p.features[k], k - 1).rejected}
        IN  /\ Len(p.acc.batch) <= batch_size
            /\ p.commits <= 1
            /\ p.pc = "done" =>
                  /\ p.commits = 1
                  /\ Len(p.staged) = Cardinality(accepted)
                  /\ {p.staged[k].original_fid + 1 : k \in DOMAIN p.staged}
                       = accepted

====
